---- MODULE Spec2Model ----
(***************************************************************************)
(* State-machine model of the authentication core of the backend:          *)
(* security.py (password hashing, token codec, rate limiter, refresh-token *)
(* fingerprint adapter, blacklist) and routers/auth.py (register, login,   *)
(* refresh), over the relational user store and the Redis key/expiry store.*)
(***************************************************************************)
EXTENDS Integers, Sequences, FiniteSets, TLC

(***************************************************************************)
(* Program constants.                                                      *)
(***************************************************************************)
ACCESS_TOKEN_EXPIRE_MINUTES == 15
REFRESH_TOKEN_EXPIRE_DAYS == 7
\* int(timedelta(minutes=15).total_seconds()), int(timedelta(days=7).total_seconds())
AccessExpiresSeconds == ACCESS_TOKEN_EXPIRE_MINUTES * 60
RefreshExpiresSeconds == REFRESH_TOKEN_EXPIRE_DAYS * 86400
RegisterMaxAttempts == 5
RegisterWindowSeconds == 3600
LoginMaxAttempts == 10
LoginWindowSeconds == 600
DefaultMaxAttempts == 5
DefaultWindowSeconds == 300

(***************************************************************************)
(* Bounds of the model.                                                    *)
(***************************************************************************)
MaxIssues == 3     \* successful authentication events (token pairs minted)
MaxTicks == 1      \* advances of the clock

Emails == {"a@x.com"}
RegPassword == "longpassword1"
Passwords == {RegPassword, "wrongpassword"}
\* passwords the register schema admits (8 to 100 characters): the two
\* above, one of 72 characters and two of 73 that begin with it
LongPassword == "correct-horse-battery-staple-correct-horse-battery-staple-correct-horse-"
PasswordInputs == Passwords \cup {LongPassword, LongPassword \o "1", LongPassword \o "2"}
Procs == {1, 2}
\* the clock advances by one of the program's durations
TickSteps == {AccessExpiresSeconds, RefreshExpiresSeconds}
\* inside a rate-limit window, and past it
RegisterTicks == {LoginWindowSeconds, RegisterWindowSeconds}
LoginTicks == {DefaultWindowSeconds, LoginWindowSeconds}
CallTicks == {DefaultWindowSeconds \div 2, DefaultWindowSeconds}
\* arguments of direct adapter and limiter calls
UserIds == {1, 2}
Fingerprints == {"9f86d0", "60303a"}
Identifiers == {"10.0.0.1", "10.0.0.2"}
MaxAttemptsArgs == {1, DefaultMaxAttempts}
\* accounts of the token specifications
TokenEmails == {"a@x.com", "b@x.com"}
\* just before, at and just after the expiry of a token issued at time 0
ExpiryTicks == {AccessExpiresSeconds - 1, AccessExpiresSeconds, AccessExpiresSeconds + 1,
                RefreshExpiresSeconds - 1, RefreshExpiresSeconds, RefreshExpiresSeconds + 1}

VARIABLES
    now,      \* datetime.utcnow(), in seconds
    client,   \* redis_client.client: "None", or a handle to a server that is "up" or "down"
    store,    \* the Redis keyspace: key -> [val, exp]
    users,    \* the users table: id (index) -> [email, hashed_password, is_active]
    issued,   \* every token minted so far (the tokens clients may present)
    rng,      \* number of random values drawn so far (salts, jti)
    resp,     \* the latest call and its outcome
    nticks,   \* number of clock advances so far
    rotated,  \* history: jti of refresh tokens a successful Refresh consumed with the store reachable
    win,      \* history: per rate-limit key, the fixed window that real time defines
    hist,     \* history: how far the latest adapter calls got through store, revoke, verify of one key
    procs     \* per in-flight request: its position and locals

vars == <<now, client, store, users, issued, rng, resp, nticks, rotated, win, hist, procs>>

(***************************************************************************)
(* Redis: per-key values with an expiry time.  Expired keys are removed    *)
(* when the clock advances, so a key in DOMAIN store exists.               *)
(***************************************************************************)
NoTTL == 0 - 1
None == 0 - 1

RedisGet(st, k) == IF k \in DOMAIN st THEN st[k].val ELSE None

RedisSetex(st, k, seconds, v, t) ==
    [x \in DOMAIN st \cup {k} |-> IF x = k THEN [val |-> v, exp |-> t + seconds] ELSE st[x]]

RedisExists(st, k) == k \in DOMAIN st

RedisDelete(st, k) == [x \in DOMAIN st \ {k} |-> st[x]]

\* INCR keeps the TTL of an existing key; on a missing key it creates the key
\* with value 1 and no TTL.
RedisIncr(st, k) ==
    IF k \in DOMAIN st
    THEN [st EXCEPT ![k].val = @ + 1]
    ELSE [x \in DOMAIN st \cup {k} |-> IF x = k THEN [val |-> 1, exp |-> NoTTL] ELSE st[x]]

Expire(st, t) == [x \in {k \in DOMAIN st : st[k].exp = NoTTL \/ st[k].exp > t} |-> st[x]]

(***************************************************************************)
(* Credential hasher.  bcrypt is modelled as the pair of the salt and a    *)
(* one-way digest of (salt, password); checkpw recomputes with the salt     *)
(* found in the hash.                                                      *)
(***************************************************************************)
\* bcrypt reads no more than the first 72 bytes of the password
BcryptMaxBytes == 72
Bcrypt(password, salt) ==
    <<"$2b$", salt,
      <<salt, IF Len(password) > BcryptMaxBytes
              THEN SubSeq(password, 1, BcryptMaxBytes) ELSE password>>>>

hash_password(password, salt) == Bcrypt(password, salt)

verify_password(plain_password, hashed_password) ==
    Bcrypt(plain_password, hashed_password[2]) = hashed_password

(***************************************************************************)
(* Token codec.  A token is its signed claims; only tokens the server      *)
(* signed (issued) carry a valid signature.                                *)
(***************************************************************************)
NoEmail == "-"
NoToken == [type |-> "none", sub |-> 0, email |-> NoEmail, exp |-> 0, jti |-> 0]
\* a string that is no token of this server ("invalid.token.here")
GarbageToken == [type |-> "refresh", sub |-> 1, email |-> NoEmail, exp |-> 0, jti |-> 0]

\* mutant: the access token carries no email claim
create_access_token_without_email(sub, email, expires_delta, t, jti) ==
    [type |-> "access", sub |-> sub, email |-> NoEmail, exp |-> t + expires_delta, jti |-> jti]

create_access_token(sub, email, expires_delta, t, jti) ==
    [type |-> "access", sub |-> sub, email |-> email, exp |-> t + expires_delta, jti |-> jti]

\* mutant: the token carries no jti
create_refresh_token_without_jti(sub, expires_delta, t, jti) ==
    [type |-> "refresh", sub |-> sub, email |-> NoEmail, exp |-> t + expires_delta, jti |-> 0]

create_refresh_token(sub, expires_delta, t, jti) ==
    [type |-> "refresh", sub |-> sub, email |-> NoEmail, exp |-> t + expires_delta, jti |-> jti]

\* mutant: the type claim is not compared with the expected type
verify_token_untyped(token, expected_type, iss, t) ==
    IF ~(\E i \in 1..Len(iss) : iss[i] = token) \/ token.exp <= t THEN NoToken
    ELSE token

\* mutant: the exp claim is not verified
verify_token_unexpiring(token, expected_type, iss, t) ==
    IF ~(\E i \in 1..Len(iss) : iss[i] = token) THEN NoToken
    ELSE IF token.type # expected_type THEN NoToken
    ELSE token

Signed(token, iss) == \E i \in 1..Len(iss) : iss[i] = token

\* jwt.decode raises on a bad signature and on exp <= now; then the type check
verify_token(token, expected_type, iss, t) ==
    IF ~Signed(token, iss) \/ token.exp <= t THEN NoToken
    ELSE IF token.type # expected_type THEN NoToken
    ELSE token

\* sha256 of the token string: deterministic, one value per distinct token
generate_token_fingerprint(token) ==
    <<"sha256", token.type, token.sub, token.email, token.exp, token.jti>>

(***************************************************************************)
(* Keys of the fast store.                                                 *)
(***************************************************************************)
\* mutant: the key does not name the endpoint
generate_rate_limit_key_without_endpoint(identifier, endpoint) ==
    <<"rate_limit", "", identifier>>

\* mutant: the key does not name the identifier
generate_rate_limit_key_without_identifier(identifier, endpoint) ==
    <<"rate_limit", endpoint, "">>

generate_rate_limit_key(identifier, endpoint) == <<"rate_limit", endpoint, identifier>>
RefreshKey(user_id, fingerprint) == <<"refresh_token", user_id, fingerprint>>
BlacklistKey(token) == <<"blacklist", generate_token_fingerprint(token), 0>>

(***************************************************************************)
(* Rate limiter, as one uninterrupted call.  Result: [allowed, store].     *)
(***************************************************************************)
\* mutant: the comparison with max_attempts is off by one
check_rate_limit_off_by_one(c, st, key, max_attempts, window_seconds, t) ==
    IF c # "up" THEN [allowed |-> TRUE, store |-> st]
    ELSE LET current == RedisGet(st, key) IN
         IF current = None
         THEN [allowed |-> TRUE, store |-> RedisSetex(st, key, window_seconds, 1, t)]
         ELSE IF current > max_attempts
         THEN [allowed |-> FALSE, store |-> st]
         ELSE [allowed |-> TRUE, store |-> RedisIncr(st, key)]

\* mutant: every counted attempt restarts the window
check_rate_limit_sliding(c, st, key, max_attempts, window_seconds, t) ==
    IF c # "up" THEN [allowed |-> TRUE, store |-> st]
    ELSE LET current == RedisGet(st, key) IN
         IF current = None
         THEN [allowed |-> TRUE, store |-> RedisSetex(st, key, window_seconds, 1, t)]
         ELSE IF current >= max_attempts
         THEN [allowed |-> FALSE, store |-> st]
         ELSE [allowed |-> TRUE,
               store |-> RedisSetex(st, key, window_seconds, current + 1, t)]

\* mutant: a denied call still counts the attempt
check_rate_limit_counts_denied(c, st, key, max_attempts, window_seconds, t) ==
    IF c # "up" THEN [allowed |-> TRUE, store |-> st]
    ELSE LET current == RedisGet(st, key) IN
         IF current = None
         THEN [allowed |-> TRUE, store |-> RedisSetex(st, key, window_seconds, 1, t)]
         ELSE [allowed |-> current < max_attempts, store |-> RedisIncr(st, key)]

check_rate_limit(c, st, key, max_attempts, window_seconds, t) ==
    IF c = "None" THEN [allowed |-> TRUE, store |-> st]
    ELSE IF c = "down" THEN [allowed |-> TRUE, store |-> st]
    ELSE LET current == RedisGet(st, key) IN
         IF current = None
         THEN [allowed |-> TRUE, store |-> RedisSetex(st, key, window_seconds, 1, t)]
         ELSE IF current >= max_attempts
         THEN [allowed |-> FALSE, store |-> st]
         ELSE [allowed |-> TRUE, store |-> RedisIncr(st, key)]

(***************************************************************************)
(* Revocation store adapter.                                               *)
(***************************************************************************)
\* mutant: the fingerprint is not written
store_fingerprint_dropped(c, st, user_id, fingerprint, expires_in, t) == st

store_refresh_token_fingerprint(c, st, user_id, fingerprint, expires_in, t) ==
    IF c = "None" THEN st
    ELSE IF c = "down" THEN st
    ELSE RedisSetex(st, RefreshKey(user_id, fingerprint), expires_in, 1, t)

\* mutant: the existence check is skipped
verify_fingerprint_unchecked(c, st, user_id, fingerprint) == TRUE

\* mutant: an unreachable store rejects (fails closed)
verify_fingerprint_failclosed(c, st, user_id, fingerprint) ==
    IF c = "up" THEN RedisExists(st, RefreshKey(user_id, fingerprint)) ELSE FALSE

\* mutant: the key is looked up by fingerprint alone
verify_fingerprint_of_any_user(c, st, user_id, fingerprint) ==
    IF c # "up" THEN TRUE
    ELSE \E k \in DOMAIN st : k[1] = "refresh_token" /\ k[3] = fingerprint

\* mutant: the records are read whether or not there is a handle
verify_fingerprint_without_handle(c, st, user_id, fingerprint) ==
    RedisExists(st, RefreshKey(user_id, fingerprint))

verify_refresh_token_fingerprint(c, st, user_id, fingerprint) ==
    IF c = "None" THEN TRUE
    ELSE IF c = "down" THEN TRUE
    ELSE RedisExists(st, RefreshKey(user_id, fingerprint))

\* mutant: the key is not deleted
revoke_fingerprint_noop(c, st, user_id, fingerprint) == st

revoke_refresh_token_fingerprint(c, st, user_id, fingerprint) ==
    IF c = "None" THEN st
    ELSE IF c = "down" THEN st
    ELSE RedisDelete(st, RefreshKey(user_id, fingerprint))

blacklist_token(c, st, token, expires_in, t) ==
    IF c = "None" THEN st
    ELSE IF c = "down" THEN st
    ELSE RedisSetex(st, BlacklistKey(token), expires_in, 1, t)

is_token_blacklisted(c, st, token) ==
    IF c = "None" THEN FALSE
    ELSE IF c = "down" THEN FALSE
    ELSE RedisExists(st, BlacklistKey(token))

(***************************************************************************)
(* User store.                                                             *)
(***************************************************************************)
\* id of the user with this email, 0 when there is none
get_by_email(us, email) ==
    IF \E i \in 1..Len(us) : us[i].email = email
    THEN CHOOSE i \in 1..Len(us) : us[i].email = email
    ELSE 0

get_by_id(us, id) == IF id \in 1..Len(us) THEN id ELSE 0

\* the unique constraint on users.email
EmailTaken(us, email) == \E i \in 1..Len(us) : us[i].email = email

create_user(us, email, hashed_password) ==
    Append(us, [email |-> email, hashed_password |-> hashed_password, is_active |-> TRUE])

(***************************************************************************)
(* Responses.                                                              *)
(***************************************************************************)
NoResp ==
    [op |-> "none", email |-> NoEmail, password |-> "", token |-> NoToken,
     status |-> 0, detail |-> "", access_token |-> NoToken, refresh_token |-> NoToken,
     expires_in |-> 0, refresh_expires_in |-> 0, key |-> <<>>, allowed |-> TRUE,
     client |-> "None", uid |-> 0, fp |-> <<>>, result |-> TRUE, db |-> "ok"]

HTTPException(base, status_code, detail) ==
    [base EXCEPT !.status = status_code, !.detail = detail]

TokenResponse(base, status_code, access, refresh) ==
    [base EXCEPT !.status = status_code, !.detail = "success",
                 !.access_token = access, !.refresh_token = refresh,
                 !.expires_in = AccessExpiresSeconds,
                 !.refresh_expires_in = RefreshExpiresSeconds]

(***************************************************************************)
(* History of the rate-limit windows as real time defines them: a window   *)
(* opens with the first attempt on a key and lasts window_seconds; n       *)
(* counts the attempts in it (up to max_attempts + 1), clean says the      *)
(* store was reachable at every attempt on the key so far, exhausted   *)
(* that the window before this one, if any, ended with a denied call.      *)
(***************************************************************************)
WinAfter(w, c, key, max_attempts, window_seconds, t) ==
    IF (IF key \in DOMAIN w THEN t < w[key].start + window_seconds ELSE FALSE)
    THEN [w EXCEPT ![key].n = IF @ > max_attempts THEN @ ELSE @ + 1,
                   ![key].clean = @ /\ c = "up"]
    ELSE [x \in DOMAIN w \cup {key} |->
            IF x = key
            THEN [start |-> t, n |-> 1, exhausted |-> IF key \in DOMAIN w THEN w[key].n > max_attempts ELSE FALSE,
                  clean |-> c = "up" /\ (IF key \in DOMAIN w THEN w[key].clean ELSE TRUE)]
            ELSE w[x]]

\* stage 1: store(u, f) was called; 2: then revoke(u, f); 3: then verify(u, f);
\* each with the store reachable.  Any other adapter call starts over.
NoChain == [uid |-> 0, fp |-> "", stage |-> 0]
Chain(h, op, user_id, fingerprint, c) ==
    IF c # "up" THEN NoChain
    ELSE IF op = "store_fp" THEN [uid |-> user_id, fp |-> fingerprint, stage |-> 1]
    ELSE IF op = "revoke_fp" /\ h = [uid |-> user_id, fp |-> fingerprint, stage |-> 1]
    THEN [h EXCEPT !.stage = 2]
    ELSE IF op = "verify_fp" /\ h = [uid |-> user_id, fp |-> fingerprint, stage |-> 2]
    THEN [h EXCEPT !.stage = 3]
    ELSE NoChain

\* a request handler (or a call of check_rate_limit) between its awaits
IdleProc == [pc |-> "idle", email |-> NoEmail, password |-> "", key |-> <<>>,
             max_attempts |-> 0, fresh |-> FALSE, uid |-> 0, fault |-> "",
             result |-> FALSE, status |-> 0, serial |-> 0]

Init ==
    /\ now = 0
    /\ client = "None"
    /\ store = <<>>
    /\ users = <<>>
    /\ issued = <<>>
    /\ rng = 0
    /\ resp = NoResp
    /\ nticks = 0
    /\ rotated = {}
    /\ win = <<>>
    /\ hist = NoChain
    /\ procs = [p \in Procs |-> IdleProc]

(***************************************************************************)
(* Auth orchestrator: each handler as a function of the state it reads,    *)
(* giving the state it leaves and the response.                            *)
(***************************************************************************)
\* create both tokens, store the refresh fingerprint, build the response
\* mutant: the fingerprint stored is that of the access token
Mint_fingerprints_access_token(st, r, uid, email, base, status_code) ==
    LET access == create_access_token(uid, email, AccessExpiresSeconds, now, r + 1)
        refresh == create_refresh_token(uid, RefreshExpiresSeconds, now, r + 2)
    IN [store |-> store_refresh_token_fingerprint(client, st, uid,
                      generate_token_fingerprint(access), RefreshExpiresSeconds, now),
        issued |-> issued \o <<access, refresh>>,
        rng |-> r + 2,
        resp |-> TokenResponse(base, status_code, access, refresh)]

\* mutant: the fingerprint is stored with the access token's lifetime
Mint_fingerprint_ttl_of_access(st, r, uid, email, base, status_code) ==
    LET access == create_access_token(uid, email, AccessExpiresSeconds, now, r + 1)
        refresh == create_refresh_token(uid, RefreshExpiresSeconds, now, r + 2)
    IN [store |-> store_refresh_token_fingerprint(client, st, uid,
                      generate_token_fingerprint(refresh), AccessExpiresSeconds, now),
        issued |-> issued \o <<access, refresh>>,
        rng |-> r + 2,
        resp |-> TokenResponse(base, status_code, access, refresh)]

Mint(st, r, uid, email, base, status_code) ==
    LET access == create_access_token(uid, email, AccessExpiresSeconds, now, r + 1)
        refresh == create_refresh_token(uid, RefreshExpiresSeconds, now, r + 2)
    IN [store |-> store_refresh_token_fingerprint(client, st, uid,
                      generate_token_fingerprint(refresh), RefreshExpiresSeconds, now),
        issued |-> issued \o <<access, refresh>>,
        rng |-> r + 2,
        resp |-> TokenResponse(base, status_code, access, refresh)]

Fail(st, us, r, base, status_code, detail) ==
    [store |-> st, users |-> us, issued |-> issued, rng |-> r,
     resp |-> HTTPException(base, status_code, detail)]

\* mutant: the lookup of an existing user is missing
register_without_lookup(email, password) ==
    LET base == [NoResp EXCEPT !.op = "register", !.email = email,
                               !.password = password, !.client = client]
        rate_limit_key == generate_rate_limit_key(email, "register")
        rl == check_rate_limit(client, store, rate_limit_key,
                               RegisterMaxAttempts, RegisterWindowSeconds, now)
        hashed_password == hash_password(password, rng + 1)
        m == Mint(rl.store, rng + 1, Len(users) + 1, email, base, 201)
    IN IF ~rl.allowed
       THEN Fail(rl.store, users, rng, base, 429,
                 "Too many registration attempts. Please try again later.")
       ELSE IF EmailTaken(users, email)
       THEN Fail(rl.store, users, rng + 1, base, 500, "Failed to create user")
       ELSE [store |-> m.store, users |-> create_user(users, email, hashed_password),
             issued |-> m.issued, rng |-> m.rng, resp |-> m.resp]

\* mutant: the duplicate-email lookup comes before the rate limiter
register_looks_up_first(email, password) ==
    LET base == [NoResp EXCEPT !.op = "register", !.email = email,
                               !.password = password, !.client = client]
        rate_limit_key == generate_rate_limit_key(email, "register")
        rl == check_rate_limit(client, store, rate_limit_key,
                               RegisterMaxAttempts, RegisterWindowSeconds, now)
        hashed_password == hash_password(password, rng + 1)
        m == Mint(rl.store, rng + 1, Len(users) + 1, email, base, 201)
    IN IF get_by_email(users, email) # 0
       THEN Fail(store, users, rng, base, 400, "Email already registered")
       ELSE IF ~rl.allowed
       THEN Fail(rl.store, users, rng, base, 429,
                 "Too many registration attempts. Please try again later.")
       ELSE [store |-> m.store, users |-> create_user(users, email, hashed_password),
             issued |-> m.issued, rng |-> m.rng, resp |-> m.resp]

register(email, password) ==
    LET base == [NoResp EXCEPT !.op = "register", !.email = email,
                               !.password = password, !.client = client]
        rate_limit_key == generate_rate_limit_key(email, "register")
        rl == check_rate_limit(client, store, rate_limit_key,
                               RegisterMaxAttempts, RegisterWindowSeconds, now)
        hashed_password == hash_password(password, rng + 1)
        m == Mint(rl.store, rng + 1, Len(users) + 1, email, base, 201)
    IN IF ~rl.allowed
       THEN Fail(rl.store, users, rng, base, 429,
                 "Too many registration attempts. Please try again later.")
       ELSE IF get_by_email(users, email) # 0
       THEN Fail(rl.store, users, rng, base, 400, "Email already registered")
       ELSE IF EmailTaken(users, email)
       THEN Fail(rl.store, users, rng + 1, base, 500, "Failed to create user")
       ELSE [store |-> m.store, users |-> create_user(users, email, hashed_password),
             issued |-> m.issued, rng |-> m.rng, resp |-> m.resp]

\* mutant: the limiter is consulted only after the credentials were found wrong
login_limits_failures_only(email, password) ==
    LET base == [NoResp EXCEPT !.op = "login", !.email = email,
                               !.password = password, !.client = client]
        rate_limit_key == generate_rate_limit_key(email, "login")
        rl == check_rate_limit(client, store, rate_limit_key,
                               LoginMaxAttempts, LoginWindowSeconds, now)
        user == get_by_email(users, email)
        good == IF user = 0 THEN FALSE
                ELSE verify_password(password, users[user].hashed_password)
        m == Mint(store, rng, user, email, base, 200)
    IN IF good /\ users[user].is_active
       THEN [store |-> m.store, users |-> users,
             issued |-> m.issued, rng |-> m.rng, resp |-> m.resp]
       ELSE IF ~rl.allowed
       THEN Fail(rl.store, users, rng, base, 429,
                 "Too many login attempts. Please try again later.")
       ELSE IF good
       THEN Fail(rl.store, users, rng, base, 403, "User account is inactive")
       ELSE Fail(rl.store, users, rng, base, 401, "Invalid email or password")

\* mutant: an unknown email is answered differently from a wrong password
login_reveals_unknown_email(email, password) ==
    LET base == [NoResp EXCEPT !.op = "login", !.email = email,
                               !.password = password, !.client = client]
        rate_limit_key == generate_rate_limit_key(email, "login")
        rl == check_rate_limit(client, store, rate_limit_key,
                               LoginMaxAttempts, LoginWindowSeconds, now)
        user == get_by_email(users, email)
        m == Mint(rl.store, rng, user, email, base, 200)
    IN IF ~rl.allowed
       THEN Fail(rl.store, users, rng, base, 429,
                 "Too many login attempts. Please try again later.")
       ELSE IF user = 0
       THEN Fail(rl.store, users, rng, base, 404, "User not found")
       ELSE IF ~verify_password(password, users[user].hashed_password)
       THEN Fail(rl.store, users, rng, base, 401, "Invalid email or password")
       ELSE IF ~users[user].is_active
       THEN Fail(rl.store, users, rng, base, 403, "User account is inactive")
       ELSE [store |-> m.store, users |-> users,
             issued |-> m.issued, rng |-> m.rng, resp |-> m.resp]

\* mutant: the active flag is checked before the password
login_checks_active_first(email, password) ==
    LET base == [NoResp EXCEPT !.op = "login", !.email = email,
                               !.password = password, !.client = client]
        rate_limit_key == generate_rate_limit_key(email, "login")
        rl == check_rate_limit(client, store, rate_limit_key,
                               LoginMaxAttempts, LoginWindowSeconds, now)
        user == get_by_email(users, email)
        m == Mint(rl.store, rng, user, email, base, 200)
    IN IF ~rl.allowed
       THEN Fail(rl.store, users, rng, base, 429,
                 "Too many login attempts. Please try again later.")
       ELSE IF user = 0
       THEN Fail(rl.store, users, rng, base, 401, "Invalid email or password")
       ELSE IF ~users[user].is_active
       THEN Fail(rl.store, users, rng, base, 403, "User account is inactive")
       ELSE IF ~verify_password(password, users[user].hashed_password)
       THEN Fail(rl.store, users, rng, base, 401, "Invalid email or password")
       ELSE [store |-> m.store, users |-> users,
             issued |-> m.issued, rng |-> m.rng, resp |-> m.resp]

\* mutant: an inactive account is answered like a wrong password
login_inactive_unauthorized(email, password) ==
    LET base == [NoResp EXCEPT !.op = "login", !.email = email,
                               !.password = password, !.client = client]
        rate_limit_key == generate_rate_limit_key(email, "login")
        rl == check_rate_limit(client, store, rate_limit_key,
                               LoginMaxAttempts, LoginWindowSeconds, now)
        user == get_by_email(users, email)
        m == Mint(rl.store, rng, user, email, base, 200)
    IN IF ~rl.allowed
       THEN Fail(rl.store, users, rng, base, 429,
                 "Too many login attempts. Please try again later.")
       ELSE IF user = 0
       THEN Fail(rl.store, users, rng, base, 401, "Invalid email or password")
       ELSE IF ~verify_password(password, users[user].hashed_password)
       THEN Fail(rl.store, users, rng, base, 401, "Invalid email or password")
       ELSE IF ~users[user].is_active
       THEN Fail(rl.store, users, rng, base, 401, "User account is inactive")
       ELSE [store |-> m.store, users |-> users,
             issued |-> m.issued, rng |-> m.rng, resp |-> m.resp]

login(email, password) ==
    LET base == [NoResp EXCEPT !.op = "login", !.email = email,
                               !.password = password, !.client = client]
        rate_limit_key == generate_rate_limit_key(email, "login")
        rl == check_rate_limit(client, store, rate_limit_key,
                               LoginMaxAttempts, LoginWindowSeconds, now)
        user == get_by_email(users, email)
        m == Mint(rl.store, rng, user, email, base, 200)
    IN IF ~rl.allowed
       THEN Fail(rl.store, users, rng, base, 429,
                 "Too many login attempts. Please try again later.")
       ELSE IF user = 0
       THEN Fail(rl.store, users, rng, base, 401, "Invalid email or password")
       ELSE IF ~verify_password(password, users[user].hashed_password)
       THEN Fail(rl.store, users, rng, base, 401, "Invalid email or password")
       ELSE IF ~users[user].is_active
       THEN Fail(rl.store, users, rng, base, 403, "User account is inactive")
       ELSE [store |-> m.store, users |-> users,
             issued |-> m.issued, rng |-> m.rng, resp |-> m.resp]

\* mutant: the active flag is not checked
refresh_ignores_inactive(token) ==
    LET base == [NoResp EXCEPT !.op = "refresh", !.token = token, !.client = client]
        payload == verify_token(token, "refresh", issued, now)
        user_id == payload.sub
        refresh_fingerprint == generate_token_fingerprint(token)
        is_valid == verify_refresh_token_fingerprint(client, store, user_id,
                                                     refresh_fingerprint)
        user == get_by_id(users, user_id)
        m == Mint(store, rng, user, users[user].email, base, 200)
    IN IF payload = NoToken
       THEN Fail(store, users, rng, base, 401, "Invalid or expired refresh token")
       ELSE IF user_id = 0
       THEN Fail(store, users, rng, base, 401, "Invalid token payload")
       ELSE IF ~is_valid
       THEN Fail(store, users, rng, base, 401, "Refresh token has been revoked")
       ELSE IF user = 0
       THEN Fail(store, users, rng, base, 401, "User not found")
       ELSE [store |-> m.store, users |-> users,
             issued |-> m.issued, rng |-> m.rng, resp |-> m.resp]

\* mutant: the fingerprint of the presented token is revoked on success
refresh_revokes_presented(token) ==
    LET base == [NoResp EXCEPT !.op = "refresh", !.token = token, !.client = client]
        payload == verify_token(token, "refresh", issued, now)
        user_id == payload.sub
        refresh_fingerprint == generate_token_fingerprint(token)
        is_valid == verify_refresh_token_fingerprint(client, store, user_id,
                                                     refresh_fingerprint)
        user == get_by_id(users, user_id)
        m == Mint(revoke_refresh_token_fingerprint(client, store, user_id,
                                                   refresh_fingerprint),
                  rng, user, users[user].email, base, 200)
    IN IF payload = NoToken
       THEN Fail(store, users, rng, base, 401, "Invalid or expired refresh token")
       ELSE IF user_id = 0
       THEN Fail(store, users, rng, base, 401, "Invalid token payload")
       ELSE IF ~is_valid
       THEN Fail(store, users, rng, base, 401, "Refresh token has been revoked")
       ELSE IF user = 0
       THEN Fail(store, users, rng, base, 401, "User not found")
       ELSE IF ~users[user].is_active
       THEN Fail(store, users, rng, base, 403, "User account is inactive")
       ELSE [store |-> m.store, users |-> users,
             issued |-> m.issued, rng |-> m.rng, resp |-> m.resp]

\* mutant: a token presented for an inactive account is revoked
refresh_revokes_on_inactive(token) ==
    LET base == [NoResp EXCEPT !.op = "refresh", !.token = token, !.client = client]
        payload == verify_token(token, "refresh", issued, now)
        user_id == payload.sub
        refresh_fingerprint == generate_token_fingerprint(token)
        is_valid == verify_refresh_token_fingerprint(client, store, user_id,
                                                     refresh_fingerprint)
        user == get_by_id(users, user_id)
        m == Mint(store, rng, user, users[user].email, base, 200)
    IN IF payload = NoToken
       THEN Fail(store, users, rng, base, 401, "Invalid or expired refresh token")
       ELSE IF user_id = 0
       THEN Fail(store, users, rng, base, 401, "Invalid token payload")
       ELSE IF ~is_valid
       THEN Fail(store, users, rng, base, 401, "Refresh token has been revoked")
       ELSE IF user = 0
       THEN Fail(store, users, rng, base, 401, "User not found")
       ELSE IF ~users[user].is_active
       THEN Fail(revoke_refresh_token_fingerprint(client, store, user_id,
                                                  refresh_fingerprint),
                 users, rng, base, 403, "User account is inactive")
       ELSE [store |-> m.store, users |-> users,
             issued |-> m.issued, rng |-> m.rng, resp |-> m.resp]

\* mutant: the user is looked up before the fingerprint is checked
refresh_looks_up_first(token) ==
    LET base == [NoResp EXCEPT !.op = "refresh", !.token = token, !.client = client]
        payload == verify_token(token, "refresh", issued, now)
        user_id == payload.sub
        refresh_fingerprint == generate_token_fingerprint(token)
        is_valid == verify_refresh_token_fingerprint(client, store, user_id,
                                                     refresh_fingerprint)
        user == get_by_id(users, user_id)
        m == Mint(store, rng, user, users[user].email, base, 200)
    IN IF payload = NoToken
       THEN Fail(store, users, rng, base, 401, "Invalid or expired refresh token")
       ELSE IF user_id = 0
       THEN Fail(store, users, rng, base, 401, "Invalid token payload")
       ELSE IF user = 0
       THEN Fail(store, users, rng, base, 401, "User not found")
       ELSE IF ~users[user].is_active
       THEN Fail(store, users, rng, base, 403, "User account is inactive")
       ELSE IF ~is_valid
       THEN Fail(store, users, rng, base, 401, "Refresh token has been revoked")
       ELSE [store |-> m.store, users |-> users,
             issued |-> m.issued, rng |-> m.rng, resp |-> m.resp]

refresh(token) ==
    LET base == [NoResp EXCEPT !.op = "refresh", !.token = token, !.client = client]
        payload == verify_token(token, "refresh", issued, now)
        user_id == payload.sub
        refresh_fingerprint == generate_token_fingerprint(token)
        is_valid == verify_refresh_token_fingerprint(client, store, user_id,
                                                     refresh_fingerprint)
        user == get_by_id(users, user_id)
        m == Mint(store, rng, user, users[user].email, base, 200)
    IN IF payload = NoToken
       THEN Fail(store, users, rng, base, 401, "Invalid or expired refresh token")
       ELSE IF user_id = 0
       THEN Fail(store, users, rng, base, 401, "Invalid token payload")
       ELSE IF ~is_valid
       THEN Fail(store, users, rng, base, 401, "Refresh token has been revoked")
       ELSE IF user = 0
       THEN Fail(store, users, rng, base, 401, "User not found")
       ELSE IF ~users[user].is_active
       THEN Fail(store, users, rng, base, 403, "User account is inactive")
       ELSE [store |-> m.store, users |-> users,
             issued |-> m.issued, rng |-> m.rng, resp |-> m.resp]

(***************************************************************************)
(* The handlers when the database raises at a user-store call: at the      *)
(* lookup, which no handler guards, so the exception leaves the handler    *)
(* and the framework answers 500; or at the create of register, which is   *)
(* inside try/except.                                                      *)
(***************************************************************************)
\* mutant: a lookup that raises counts as "no such user"
register_lookup_failopen(email, password, at) ==
    LET base == [NoResp EXCEPT !.op = "register", !.email = email,
                               !.password = password, !.client = client, !.db = at]
        rl == check_rate_limit(client, store, generate_rate_limit_key(email, "register"),
                               RegisterMaxAttempts, RegisterWindowSeconds, now)
        m == Mint(rl.store, rng + 1, Len(users) + 1, email, base, 201)
    IN IF ~rl.allowed
       THEN Fail(rl.store, users, rng, base, 429,
                 "Too many registration attempts. Please try again later.")
       ELSE IF at = "create" \/ EmailTaken(users, email)
       THEN Fail(rl.store, users, rng + 1, base, 500, "Failed to create user")
       ELSE [store |-> m.store,
             users |-> create_user(users, email, hash_password(password, rng + 1)),
             issued |-> m.issued, rng |-> m.rng, resp |-> m.resp]

register_db_error(email, password, at) ==
    LET base == [NoResp EXCEPT !.op = "register", !.email = email,
                               !.password = password, !.client = client, !.db = at]
        rl == check_rate_limit(client, store, generate_rate_limit_key(email, "register"),
                               RegisterMaxAttempts, RegisterWindowSeconds, now)
    IN IF ~rl.allowed
       THEN Fail(rl.store, users, rng, base, 429,
                 "Too many registration attempts. Please try again later.")
       ELSE IF at = "lookup"
       THEN Fail(rl.store, users, rng, base, 500, "Internal Server Error")
       ELSE IF get_by_email(users, email) # 0
       THEN Fail(rl.store, users, rng, base, 400, "Email already registered")
       ELSE Fail(rl.store, users, rng + 1, base, 500, "Failed to create user")

login_db_error(email, password) ==
    LET base == [NoResp EXCEPT !.op = "login", !.email = email,
                               !.password = password, !.client = client, !.db = "lookup"]
        rl == check_rate_limit(client, store, generate_rate_limit_key(email, "login"),
                               LoginMaxAttempts, LoginWindowSeconds, now)
    IN IF ~rl.allowed
       THEN Fail(rl.store, users, rng, base, 429,
                 "Too many login attempts. Please try again later.")
       ELSE Fail(rl.store, users, rng, base, 500, "Internal Server Error")

refresh_db_error(token) ==
    LET base == [NoResp EXCEPT !.op = "refresh", !.token = token, !.client = client,
                               !.db = "lookup"]
        payload == verify_token(token, "refresh", issued, now)
        user_id == payload.sub
        is_valid == verify_refresh_token_fingerprint(client, store, user_id,
                                                     generate_token_fingerprint(token))
    IN IF payload = NoToken
       THEN Fail(store, users, rng, base, 401, "Invalid or expired refresh token")
       ELSE IF user_id = 0
       THEN Fail(store, users, rng, base, 401, "Invalid token payload")
       ELSE IF ~is_valid
       THEN Fail(store, users, rng, base, 401, "Refresh token has been revoked")
       ELSE Fail(store, users, rng, base, 500, "Internal Server Error")

(***************************************************************************)
(* Log records.  A record is the sequence of the parts its f-string is     *)
(* built from, each with its origin and its value tagged with its type;    *)
(* Logged gives the records the call answered by r hands to the logger,    *)
(* from the user store us it read.  The text of the exception of           *)
(* create_user is taken to be made of the arguments create_user was given. *)
(***************************************************************************)
Part(origin, value) == [from |-> origin, val |-> value]

\* mutant: the failed login logs the password that was tried
Logged_with_password(r, us) ==
    IF r.op = "login" /\ r.status = 401
    THEN {<<Part("text", <<"str", "Failed login attempt for user: ">>), Part("email", <<"str", r.email>>),
            Part("password", <<"str", r.password>>)>>}
    ELSE {}

Logged(r, us) ==
    LET user == get_by_email(us, r.email)
    IN IF r.op = "register"
       THEN IF r.status = 400
            THEN {<<Part("text", <<"str", "Registration attempt with existing email: ">>),
                    Part("email", <<"str", r.email>>)>>}
            ELSE IF r.detail = "Failed to create user"
            THEN {<<Part("text", <<"str", "Error creating user: ">>),
                    Part("exception", <<"seq", <<<<"str", r.email>>,
                                              <<"hash", hash_password(r.password, rng)>>>>>>)>>}
            ELSE IF r.status = 201
            THEN {<<Part("text", <<"str", "New user registered: ">>), Part("email", <<"str", r.email>>)>>}
            ELSE {}
       ELSE IF r.op = "login"
       THEN IF r.status = 401 /\ user = 0
            THEN {<<Part("text", <<"str", "Login attempt with non-existent email: ">>),
                    Part("email", <<"str", r.email>>)>>}
            ELSE IF r.status = 401
            THEN {<<Part("text", <<"str", "Failed login attempt for user: ">>),
                    Part("email", <<"str", r.email>>)>>}
            ELSE IF r.status = 403
            THEN {<<Part("text", <<"str", "Login attempt for inactive user: ">>),
                    Part("email", <<"str", r.email>>)>>}
            ELSE IF r.status = 200
            THEN {<<Part("text", <<"str", "User logged in successfully: ">>),
                    Part("email", <<"str", us[user].email>>)>>}
            ELSE {}
       ELSE IF r.op = "refresh"
       THEN IF r.detail = "Refresh token has been revoked"
            THEN {<<Part("text", <<"str", "Refresh token fingerprint not found for user: ">>),
                    Part("user_id", <<"int", r.token.sub>>)>>}
            ELSE IF r.status = 200
            THEN {<<Part("text", <<"str", "Tokens refreshed for user: ">>),
                    Part("email", <<"str", us[r.token.sub].email>>)>>}
            ELSE {}
       ELSE {}

Apply(out) ==
    /\ Len(out.issued) <= 2 * MaxIssues
    /\ store' = out.store
    /\ users' = out.users
    /\ issued' = out.issued
    /\ rng' = out.rng
    /\ resp' = out.resp

Register(email, password) ==
    /\ Apply(register(email, password))
    /\ UNCHANGED <<now, client, nticks, rotated, procs>>

Login(email, password) ==
    /\ Apply(login(email, password))
    /\ UNCHANGED <<now, client, nticks, rotated, procs>>

Refresh(token) ==
    /\ Apply(refresh(token))
    /\ rotated' = IF resp'.status = 200 /\ client = "up"
                  THEN rotated \cup {token.jti} ELSE rotated
    /\ UNCHANGED <<now, client, nticks, procs>>

\* the same calls while the database raises
RegisterDbError(email, password, at) ==
    /\ Apply(register_db_error(email, password, at))
    /\ rng' <= 2 * MaxIssues + 1    \* salts drawn for rows that were never written
    /\ UNCHANGED <<now, client, nticks, rotated, procs>>

LoginDbError(email, password) ==
    /\ Apply(login_db_error(email, password))
    /\ UNCHANGED <<now, client, nticks, rotated, procs>>

RefreshDbError(token) ==
    /\ Apply(refresh_db_error(token))
    /\ UNCHANGED <<now, client, nticks, rotated, procs>>

(***************************************************************************)
(* Environment: the clock, the Redis connection, account status changes,   *)
(* and the adapter calls that no handler makes (revoke, blacklist).        *)
(***************************************************************************)
Tick(d) ==
    /\ nticks < MaxTicks
    /\ now' = now + d
    /\ store' = Expire(store, now + d)
    /\ nticks' = nticks + 1
    /\ UNCHANGED <<client, users, issued, rng, resp, rotated, procs>>

Connect ==
    /\ client = "None"
    /\ client' = "up"
    /\ UNCHANGED <<now, store, users, issued, rng, resp, nticks, rotated, procs>>

Outage ==
    /\ client = "up"
    /\ client' = "down"
    /\ UNCHANGED <<now, store, users, issued, rng, resp, nticks, rotated, procs>>

Recover ==
    /\ client = "down"
    /\ client' = "up"
    /\ UNCHANGED <<now, store, users, issued, rng, resp, nticks, rotated, procs>>

Restart ==
    \* a new process: __init__ sets the handle to None, and connect() leaves or
    \* puts it there when the ping raises; the server keeps its records
    /\ client # "None"
    /\ client' = "None"
    /\ UNCHANGED <<now, store, users, issued, rng, resp, nticks, rotated, procs>>

Deactivate(id) ==
    /\ id \in 1..Len(users)
    /\ users[id].is_active
    /\ users' = [users EXCEPT ![id].is_active = FALSE]
    /\ UNCHANGED <<now, client, store, issued, rng, resp, nticks, rotated, procs>>

RevokeCall(user_id, fingerprint) ==
    /\ store' = revoke_refresh_token_fingerprint(client, store, user_id, fingerprint)
    /\ resp' = [NoResp EXCEPT !.op = "revoke_fp", !.uid = user_id, !.fp = fingerprint,
                              !.client = client]
    /\ UNCHANGED <<now, client, users, issued, rng, nticks, rotated, procs>>

BlacklistCall(token) ==
    /\ token.exp > now
    /\ store' = blacklist_token(client, store, token, token.exp - now, now)
    /\ resp' = [NoResp EXCEPT !.op = "blacklist", !.token = token, !.client = client]
    /\ UNCHANGED <<now, client, users, issued, rng, nticks, rotated, procs>>

Presentable == {issued[i] : i \in 1..Len(issued)} \cup {GarbageToken}
RefreshTokens == {issued[i] : i \in {j \in 1..Len(issued) : issued[j].type = "refresh"}}

\* a step that is no rate-limited attempt and no adapter call to follow
Quiet(A) == A /\ UNCHANGED <<win, hist>>

(***************************************************************************)
(* Spec: the token lifecycle.  New emails register, registered users log   *)
(* in with their password, any token ever issued (or a string that is no   *)
(* token) is presented for refresh, while the clock, the Redis connection, *)
(* account status and explicit revocation change underneath.               *)
(***************************************************************************)
Next ==
    \/ \E e \in Emails : get_by_email(users, e) = 0 /\ Quiet(Register(e, RegPassword))
    \/ \E e \in Emails : get_by_email(users, e) # 0 /\ Quiet(Login(e, RegPassword))
    \/ \E t \in Presentable : Quiet(Refresh(t))
    \/ \E d \in TickSteps : Quiet(Tick(d))
    \/ Quiet(Connect)
    \/ Quiet(Outage)
    \/ Quiet(Recover)
    \/ \E id \in 1..Len(users) : Quiet(Deactivate(id))
    \/ \E t \in RefreshTokens : Quiet(RevokeCall(t.sub, generate_token_fingerprint(t)))

Spec == Init /\ [][Next]_vars

(***************************************************************************)
(* Rate-limited attempts, followed by the window history.                  *)
(***************************************************************************)
RegisterAttempt(email, password) ==
    /\ Register(email, password)
    /\ win' = WinAfter(win, client, generate_rate_limit_key(email, "register"),
                       RegisterMaxAttempts, RegisterWindowSeconds, now)
    /\ UNCHANGED hist

LoginAttempt(email, password) ==
    /\ Login(email, password)
    /\ win' = WinAfter(win, client, generate_rate_limit_key(email, "login"),
                       LoginMaxAttempts, LoginWindowSeconds, now)
    /\ UNCHANGED hist

\* check_rate_limit(redis_client, key) with its default max_attempts and window_seconds
RateLimitCall(key) ==
    /\ LET rl == check_rate_limit(client, store, key,
                                  DefaultMaxAttempts, DefaultWindowSeconds, now)
       IN /\ store' = rl.store
          /\ resp' = [NoResp EXCEPT !.op = "check_rate_limit", !.key = key,
                                    !.allowed = rl.allowed, !.client = client]
    /\ win' = WinAfter(win, client, key, DefaultMaxAttempts, DefaultWindowSeconds, now)
    /\ UNCHANGED <<now, client, users, issued, rng, nticks, rotated, hist, procs>>

(***************************************************************************)
(* Direct calls of the revocation adapter, followed by hist.               *)
(***************************************************************************)
StoreCall(user_id, fingerprint, expires_in) ==
    /\ store' = store_refresh_token_fingerprint(client, store, user_id, fingerprint,
                                                expires_in, now)
    /\ resp' = [NoResp EXCEPT !.op = "store_fp", !.uid = user_id, !.fp = fingerprint,
                              !.client = client]
    /\ UNCHANGED <<now, client, users, issued, rng, nticks, rotated, procs>>

VerifyCall(user_id, fingerprint) ==
    /\ resp' = [NoResp EXCEPT !.op = "verify_fp", !.uid = user_id, !.fp = fingerprint,
                              !.client = client,
                              !.result = verify_refresh_token_fingerprint(
                                             client, store, user_id, fingerprint)]
    /\ UNCHANGED <<now, client, store, users, issued, rng, nticks, rotated, procs>>

Followed(A) ==
    /\ A
    /\ hist' = Chain(hist, resp'.op, resp'.uid, resp'.fp, client)
    /\ UNCHANGED win

(***************************************************************************)
(* SpecBlacklist: tokens are issued, blacklisted and presented for refresh.*)
(***************************************************************************)
NextBlacklist ==
    \/ \E e \in Emails : get_by_email(users, e) = 0 /\ Quiet(Register(e, RegPassword))
    \/ \E e \in Emails : get_by_email(users, e) # 0 /\ Quiet(Login(e, RegPassword))
    \/ \E t \in Presentable : Quiet(Refresh(t))
    \/ \E t \in Presentable \ {GarbageToken} : Quiet(BlacklistCall(t))
    \/ \E d \in TickSteps : Quiet(Tick(d))
    \/ Quiet(Connect)

SpecBlacklist == Init /\ [][NextBlacklist]_vars

(***************************************************************************)
(* SpecRegister: repeated registration attempts against the rate limiter.  *)
(***************************************************************************)
NextRegister ==
    \/ \E e \in Emails, p \in Passwords : RegisterAttempt(e, p)
    \/ \E d \in RegisterTicks : Quiet(Tick(d))
    \/ Quiet(Connect)
    \/ Quiet(Outage)
    \/ Quiet(Recover)

SpecRegister == Init /\ [][NextRegister]_vars

(***************************************************************************)
(* SpecLogin: repeated login attempts, right and wrong, against the rate   *)
(* limiter.                                                                *)
(***************************************************************************)
NextLogin ==
    \/ \E e \in Emails : get_by_email(users, e) = 0 /\ Quiet(Register(e, RegPassword))
    \/ \E e \in Emails, p \in Passwords : LoginAttempt(e, p)
    \/ \E d \in LoginTicks : Quiet(Tick(d))
    \/ Quiet(Connect)
    \/ Quiet(Outage)
    \/ Quiet(Recover)

SpecLogin == Init /\ [][NextLogin]_vars

(***************************************************************************)
(* SpecRateLimit: sequential direct calls of check_rate_limit.             *)
(***************************************************************************)
NextRateLimit ==
    \/ \E id \in Identifiers : RateLimitCall(generate_rate_limit_key(id, "api"))
    \/ \E d \in CallTicks : Quiet(Tick(d))
    \/ Quiet(Connect)
    \/ Quiet(Outage)
    \/ Quiet(Recover)

SpecRateLimit == Init /\ [][NextRateLimit]_vars

(***************************************************************************)
(* SpecAdapter: direct calls of store / verify / revoke.                   *)
(***************************************************************************)
NextAdapter ==
    \/ \E u \in UserIds, f \in Fingerprints :
          Followed(StoreCall(u, f, RefreshExpiresSeconds))
    \/ \E u \in UserIds, f \in Fingerprints : Followed(VerifyCall(u, f))
    \/ \E u \in UserIds, f \in Fingerprints : Followed(RevokeCall(u, f))
    \/ Quiet(Tick(RefreshExpiresSeconds))
    \/ Quiet(Connect)
    \/ Quiet(Outage)
    \/ Quiet(Recover)

SpecAdapter == Init /\ [][NextAdapter]_vars

(***************************************************************************)
(* check_rate_limit one await at a time: between the GET, the SETEX and    *)
(* the INCR of one call the server may go down, the clock may advance and  *)
(* another call may run.  A command sent to a server that is down raises.  *)
(***************************************************************************)
\* mutant: an error inside the call denies the request
OnErrorDeny(pr, at) ==
    [pr EXCEPT !.pc = "done", !.result = FALSE, !.fault = at]

\* except Exception: return True
OnError(pr, at) ==
    [pr EXCEPT !.pc = "done", !.result = TRUE, !.fault = at]

Returns(pr, value) == [pr EXCEPT !.pc = "done", !.result = value]

RLBegin(p, key, max_attempts) ==
    /\ procs[p].pc = "idle"
    /\ LET pr == [IdleProc EXCEPT !.key = key, !.max_attempts = max_attempts]
       IN procs' = [procs EXCEPT ![p] =
                       IF client = "None"
                       THEN [Returns(pr, TRUE) EXCEPT !.fault = "None"]
                       ELSE [pr EXCEPT !.pc = "get"]]
    /\ UNCHANGED <<now, client, store, users, issued, rng, resp, nticks, rotated>>

RLGet(p) ==
    /\ procs[p].pc = "get"
    /\ LET pr == procs[p]
           current == RedisGet(store, pr.key)
       IN procs' = [procs EXCEPT ![p] =
                       IF client = "down" THEN OnError(pr, "get")
                       ELSE IF current = None THEN [pr EXCEPT !.pc = "setex"]
                       ELSE IF current >= pr.max_attempts THEN Returns(pr, FALSE)
                       ELSE [pr EXCEPT !.pc = "incr"]]
    /\ UNCHANGED <<now, client, store, users, issued, rng, resp, nticks, rotated>>

RLSetex(p) ==
    /\ procs[p].pc = "setex"
    /\ IF client = "down"
       THEN /\ procs' = [procs EXCEPT ![p] = OnError(procs[p], "setex")]
            /\ store' = store
       ELSE /\ procs' = [procs EXCEPT ![p] = Returns(procs[p], TRUE)]
            /\ store' = RedisSetex(store, procs[p].key, DefaultWindowSeconds, 1, now)
    /\ UNCHANGED <<now, client, users, issued, rng, resp, nticks, rotated>>

RLIncr(p) ==
    /\ procs[p].pc = "incr"
    /\ IF client = "down"
       THEN /\ procs' = [procs EXCEPT ![p] = OnError(procs[p], "incr")]
            /\ store' = store
       ELSE /\ procs' = [procs EXCEPT ![p] = Returns(procs[p], TRUE)]
            /\ store' = RedisIncr(store, procs[p].key)
    /\ UNCHANGED <<now, client, users, issued, rng, resp, nticks, rotated>>

\* the caller takes the result
Return(p) ==
    /\ procs[p].pc = "done"
    /\ procs' = [procs EXCEPT ![p] = IdleProc]
    /\ UNCHANGED <<now, client, store, users, issued, rng, resp, nticks, rotated>>

\* the clock advances while calls are in flight
TickDuring(d) ==
    /\ nticks < MaxTicks
    /\ now' = now + d
    /\ store' = Expire(store, now + d)
    /\ nticks' = nticks + 1
    /\ UNCHANGED <<client, users, issued, rng, resp, rotated, procs>>

NextRLSteps ==
    \/ \E p \in Procs, id \in Identifiers, m \in MaxAttemptsArgs :
          Quiet(RLBegin(p, generate_rate_limit_key(id, "api"), m))
    \/ \E p \in Procs : Quiet(RLGet(p))
    \/ \E p \in Procs : Quiet(RLSetex(p))
    \/ \E p \in Procs : Quiet(RLIncr(p))
    \/ \E p \in Procs : Quiet(Return(p))
    \/ Quiet(TickDuring(DefaultWindowSeconds))
    \/ Quiet(Connect)
    \/ Quiet(Outage)
    \/ Quiet(Recover)

SpecRLSteps == Init /\ [][NextRLSteps]_vars

(***************************************************************************)
(* SpecConc: register one user-store operation at a time, two requests in  *)
(* flight.  The users table refuses a second row with the same email.      *)
(***************************************************************************)
RegBegin(p, email, password) ==
    /\ procs[p].pc = "idle"
    /\ LET rl == check_rate_limit(client, store,
                                  generate_rate_limit_key(email, "register"),
                                  RegisterMaxAttempts, RegisterWindowSeconds, now)
           pr == [IdleProc EXCEPT !.email = email, !.password = password,
                                  !.fresh = get_by_email(users, email) = 0,
                                  !.serial = register(email, password).resp.status]
       IN /\ store' = rl.store
          /\ procs' = [procs EXCEPT ![p] =
                          IF rl.allowed THEN [pr EXCEPT !.pc = "lookup"]
                          ELSE [pr EXCEPT !.pc = "done", !.status = 429]]
    /\ UNCHANGED <<now, client, users, issued, rng, resp, nticks, rotated>>

RegLookup(p) ==
    /\ procs[p].pc = "lookup"
    /\ procs' = [procs EXCEPT ![p] =
                    IF get_by_email(users, procs[p].email) # 0
                    THEN [@ EXCEPT !.pc = "done", !.status = 400]
                    ELSE [@ EXCEPT !.pc = "create"]]
    /\ UNCHANGED <<now, client, store, users, issued, rng, resp, nticks, rotated>>

\* mutant: the exception of create_user is swallowed and the handler goes on
RegCreate_swallows_failure(p) ==
    /\ procs[p].pc = "create"
    /\ IF EmailTaken(users, procs[p].email)
       THEN /\ procs' = [procs EXCEPT ![p] =
                            [@ EXCEPT !.pc = "issue",
                                      !.uid = get_by_email(users, procs[p].email)]]
            /\ users' = users
       ELSE /\ procs' = [procs EXCEPT ![p] =
                            [@ EXCEPT !.pc = "issue", !.uid = Len(users) + 1]]
            /\ users' = create_user(users, procs[p].email,
                                    hash_password(procs[p].password, rng + 1))
    /\ rng' = rng + 1
    /\ UNCHANGED <<now, client, store, issued, resp, nticks, rotated>>

RegCreate(p) ==
    /\ procs[p].pc = "create"
    /\ IF EmailTaken(users, procs[p].email)
       THEN /\ procs' = [procs EXCEPT ![p] = [@ EXCEPT !.pc = "done", !.status = 500]]
            /\ users' = users
       ELSE /\ procs' = [procs EXCEPT ![p] =
                            [@ EXCEPT !.pc = "issue", !.uid = Len(users) + 1]]
            /\ users' = create_user(users, procs[p].email,
                                    hash_password(procs[p].password, rng + 1))
    /\ rng' = rng + 1
    /\ UNCHANGED <<now, client, store, issued, resp, nticks, rotated>>

RegIssue(p) ==
    /\ procs[p].pc = "issue"
    /\ LET base == [NoResp EXCEPT !.op = "register", !.email = procs[p].email,
                                  !.password = procs[p].password, !.client = client]
           m == Mint(store, rng, procs[p].uid, procs[p].email, base, 201)
       IN /\ store' = m.store
          /\ issued' = m.issued
          /\ rng' = m.rng
          /\ resp' = m.resp
    /\ procs' = [procs EXCEPT ![p] = [@ EXCEPT !.pc = "done", !.status = 201]]
    /\ UNCHANGED <<now, client, users, nticks, rotated>>

NextConc ==
    \/ \E p \in Procs, e \in Emails : Quiet(RegBegin(p, e, RegPassword))
    \/ \E p \in Procs : Quiet(RegLookup(p))
    \/ \E p \in Procs : Quiet(RegCreate(p))
    \/ \E p \in Procs : Quiet(RegIssue(p))
    \/ \E p \in Procs : Quiet(Return(p))
    \/ Quiet(Connect)
    \/ Quiet(Outage)
    \/ Quiet(Recover)

SpecConc == Init /\ [][NextConc]_vars

(***************************************************************************)
(* SpecPar: two requests in flight, each for its own user, one store       *)
(* operation at a time: register as in SpecConc, login with every Redis    *)
(* command of its rate-limit check, its user-store lookup and its          *)
(* fingerprint write a step of its own.  New emails register, registered   *)
(* users log in, and anyone mistypes the password.  serial is the status   *)
(* the whole handler would return if it ran alone from the state the       *)
(* request found.                                                          *)
(***************************************************************************)
EmailOf(p) == IF p = 1 THEN "a@x.com" ELSE "b@x.com"

LoginBegin(p, email, password) ==
    /\ procs[p].pc = "idle"
    /\ password = RegPassword => Len(issued) < 2 * (MaxIssues - 1)
    /\ LET pr == [IdleProc EXCEPT !.email = email, !.password = password,
                                  !.key = generate_rate_limit_key(email, "login"),
                                  !.max_attempts = LoginMaxAttempts,
                                  !.serial = login(email, password).resp.status]
       IN procs' = [procs EXCEPT ![p] =
                       IF client = "None" THEN [pr EXCEPT !.pc = "find"]
                       ELSE [pr EXCEPT !.pc = "read"]]
    /\ UNCHANGED <<now, client, store, users, issued, rng, resp, nticks, rotated>>

LoginGet(p) ==
    /\ procs[p].pc = "read"
    /\ LET pr == procs[p]
           current == RedisGet(store, pr.key)
       IN procs' = [procs EXCEPT ![p] =
                       IF client = "down" THEN [pr EXCEPT !.pc = "find", !.fault = "get"]
                       ELSE IF current = None THEN [pr EXCEPT !.pc = "window"]
                       ELSE IF current >= pr.max_attempts
                       THEN [pr EXCEPT !.pc = "done", !.status = 429]
                       ELSE [pr EXCEPT !.pc = "count"]]
    /\ UNCHANGED <<now, client, store, users, issued, rng, resp, nticks, rotated>>

LoginSetex(p) ==
    /\ procs[p].pc = "window"
    /\ IF client = "down"
       THEN /\ procs' = [procs EXCEPT ![p] = [@ EXCEPT !.pc = "find", !.fault = "setex"]]
            /\ store' = store
       ELSE /\ procs' = [procs EXCEPT ![p] = [@ EXCEPT !.pc = "find"]]
            /\ store' = RedisSetex(store, procs[p].key, LoginWindowSeconds, 1, now)
    /\ UNCHANGED <<now, client, users, issued, rng, resp, nticks, rotated>>

LoginIncr(p) ==
    /\ procs[p].pc = "count"
    /\ IF client = "down"
       THEN /\ procs' = [procs EXCEPT ![p] = [@ EXCEPT !.pc = "find", !.fault = "incr"]]
            /\ store' = store
       ELSE /\ procs' = [procs EXCEPT ![p] = [@ EXCEPT !.pc = "find"]]
            /\ store' = RedisIncr(store, procs[p].key)
    /\ UNCHANGED <<now, client, users, issued, rng, resp, nticks, rotated>>

LoginLookup(p) ==
    /\ procs[p].pc = "find"
    /\ LET pr == procs[p]
           user == get_by_email(users, pr.email)
       IN procs' = [procs EXCEPT ![p] =
                       IF user = 0 THEN [pr EXCEPT !.pc = "done", !.status = 401]
                       ELSE IF ~verify_password(pr.password, users[user].hashed_password)
                       THEN [pr EXCEPT !.pc = "done", !.status = 401]
                       ELSE IF ~users[user].is_active
                       THEN [pr EXCEPT !.pc = "done", !.status = 403]
                       ELSE [pr EXCEPT !.pc = "tokens", !.uid = user]]
    /\ UNCHANGED <<now, client, store, users, issued, rng, resp, nticks, rotated>>

LoginIssue(p) ==
    /\ procs[p].pc = "tokens"
    /\ LET base == [NoResp EXCEPT !.op = "login", !.email = procs[p].email,
                                  !.password = procs[p].password, !.client = client]
           m == Mint(store, rng, procs[p].uid, procs[p].email, base, 200)
       IN /\ store' = m.store
          /\ issued' = m.issued
          /\ rng' = m.rng
          /\ resp' = m.resp
    /\ procs' = [procs EXCEPT ![p] = [@ EXCEPT !.pc = "done", !.status = 200]]
    /\ UNCHANGED <<now, client, users, nticks, rotated>>

\* the connection is made while no request is in flight
ConnectIdle == (\A p \in Procs : procs[p].pc = "idle") /\ Connect

NextPar ==
    \/ \E p \in Procs : /\ get_by_email(users, EmailOf(p)) = 0
                          /\ Quiet(RegBegin(p, EmailOf(p), RegPassword))
    \/ \E p \in Procs : Quiet(RegLookup(p))
    \/ \E p \in Procs : Quiet(RegCreate(p))
    \/ \E p \in Procs : Quiet(RegIssue(p))
    \/ \E p \in Procs : /\ get_by_email(users, EmailOf(p)) # 0
                          /\ Quiet(LoginBegin(p, EmailOf(p), RegPassword))
    \/ \E p \in Procs : Quiet(LoginBegin(p, EmailOf(p), "wrongpassword"))
    \/ \E p \in Procs : Quiet(LoginGet(p))
    \/ \E p \in Procs : Quiet(LoginSetex(p))
    \/ \E p \in Procs : Quiet(LoginIncr(p))
    \/ \E p \in Procs : Quiet(LoginLookup(p))
    \/ \E p \in Procs : Quiet(LoginIssue(p))
    \/ \E p \in Procs : Quiet(Return(p))
    \/ Quiet(ConnectIdle)

SpecPar == Init /\ [][NextPar]_vars

(***************************************************************************)
(* SpecAccount: logins, right and wrong, of accounts that are deactivated  *)
(* underneath.                                                             *)
(***************************************************************************)
NextAccount ==
    \/ \E e \in Emails : get_by_email(users, e) = 0 /\ Quiet(Register(e, RegPassword))
    \/ \E e \in Emails, p \in Passwords : Quiet(Login(e, p))
    \/ \E id \in 1..Len(users) : Quiet(Deactivate(id))
    \/ \E d \in LoginTicks : Quiet(Tick(d))
    \/ Quiet(Connect)

SpecAccount == Init /\ [][NextAccount]_vars

(***************************************************************************)
(* SpecTokens: tokens of two accounts are issued and presented for refresh *)
(* around their expiry, with the store connected, down or back; nothing    *)
(* revokes a fingerprint.                                                  *)
(***************************************************************************)
NextTokens ==
    \/ \E e \in TokenEmails : get_by_email(users, e) = 0 /\ Quiet(Register(e, RegPassword))
    \/ \E e \in TokenEmails : get_by_email(users, e) # 0 /\ Quiet(Login(e, RegPassword))
    \/ \E t \in Presentable : Quiet(Refresh(t))
    \/ \E d \in ExpiryTicks : Quiet(Tick(d))
    \/ Quiet(Connect)
    \/ Quiet(Outage)
    \/ Quiet(Recover)

SpecTokens == Init /\ [][NextTokens]_vars

(***************************************************************************)
(* SpecRepeat: the three handlers called again and again with inputs that  *)
(* fail (a registered email, a wrong password, a rejected token) and with  *)
(* inputs that succeed.                                                    *)
(***************************************************************************)
NextRepeat ==
    \/ \E e \in Emails : Quiet(Register(e, RegPassword))
    \/ \E e \in Emails, p \in Passwords : Quiet(Login(e, p))
    \/ \E t \in Presentable : Quiet(Refresh(t))
    \/ \E id \in 1..Len(users) : Quiet(Deactivate(id))
    \/ Quiet(Tick(LoginWindowSeconds))
    \/ Quiet(Connect)

SpecRepeat == Init /\ [][NextRepeat]_vars

(***************************************************************************)
(* SpecFaults: the three handlers with inputs of every kind, while the     *)
(* database may raise at a user-store call and the Redis server may be     *)
(* down.                                                                   *)
(***************************************************************************)
DbFaults == {"lookup", "create"}

NextFaults ==
    \/ \E e \in Emails : Quiet(Register(e, RegPassword))
    \/ \E e \in Emails, p \in Passwords : Quiet(Login(e, p))
    \/ \E t \in Presentable : Quiet(Refresh(t))
    \/ \E e \in Emails, at \in DbFaults : Quiet(RegisterDbError(e, RegPassword, at))
    \/ \E e \in Emails : Quiet(LoginDbError(e, RegPassword))
    \/ \E t \in Presentable : Quiet(RefreshDbError(t))
    \/ \E id \in 1..Len(users) : Quiet(Deactivate(id))
    \/ Quiet(Connect)

SpecFaults == Init /\ [][NextFaults]_vars

(***************************************************************************)
(* SpecPasswords: hash_password and verify_password called on passwords    *)
(* of every length the schema admits, and the same passwords used to       *)
(* register and to log in.                                                 *)
(***************************************************************************)
HashPassword(password) ==
    /\ rng < 2 * MaxIssues
    /\ rng' = rng + 1
    /\ resp' = [NoResp EXCEPT !.op = "hash_password", !.password = password,
                              !.fp = hash_password(password, rng + 1)]
    /\ UNCHANGED <<now, client, store, users, issued, nticks, rotated, procs>>

\* verify a candidate against the hash that the last call produced
VerifyPassword(plain_password) ==
    /\ resp.op \in {"hash_password", "verify_password"}
    /\ resp' = [resp EXCEPT !.op = "verify_password", !.detail = plain_password,
                            !.result = verify_password(plain_password, resp.fp)]
    /\ UNCHANGED <<now, client, store, users, issued, rng, nticks, rotated, procs>>

NextPasswords ==
    \/ \E p \in PasswordInputs : Quiet(HashPassword(p))
    \/ \E q \in PasswordInputs : Quiet(VerifyPassword(q))
    \/ \E e \in Emails, p \in PasswordInputs :
          get_by_email(users, e) = 0 /\ Quiet(Register(e, p))
    \/ \E e \in Emails, q \in PasswordInputs : Quiet(Login(e, q))

SpecPasswords == Init /\ [][NextPasswords]_vars

(***************************************************************************)
(* SpecOrder: refresh tokens of an account that is deactivated, of tokens  *)
(* whose fingerprint was never stored or was revoked, and of a refresh     *)
(* token signed with the server's key for a user id that has no row.       *)
(***************************************************************************)
\* jwt.encode with SECRET_KEY for "sub": "99999", as the test suite does
SignForAbsentUser ==
    /\ Len(issued) < 2 * MaxIssues
    /\ issued' = Append(issued, create_refresh_token(99999, RefreshExpiresSeconds,
                                                     now, rng + 1))
    /\ rng' = rng + 1
    /\ resp' = [NoResp EXCEPT !.op = "sign", !.client = client]
    /\ UNCHANGED <<now, client, store, users, nticks, rotated, procs>>

NextOrder ==
    \/ \E e \in Emails : get_by_email(users, e) = 0 /\ Quiet(Register(e, RegPassword))
    \/ \E e \in Emails : get_by_email(users, e) # 0 /\ Quiet(Login(e, RegPassword))
    \/ \E t \in Presentable : Quiet(Refresh(t))
    \/ Quiet(SignForAbsentUser)
    \/ \E id \in 1..Len(users) : Quiet(Deactivate(id))
    \/ \E t \in RefreshTokens : Quiet(RevokeCall(t.sub, generate_token_fingerprint(t)))
    \/ \E d \in TickSteps : Quiet(Tick(d))
    \/ Quiet(Connect)

SpecOrder == Init /\ [][NextOrder]_vars

(***************************************************************************)
(* SpecScope: two emails register and fail to log in, each attempt counted *)
(* by the rate limiter under its own key.                                  *)
(***************************************************************************)
NextScope ==
    \/ \E e \in TokenEmails : Quiet(Register(e, RegPassword))
    \/ \E e \in TokenEmails : Quiet(Login(e, "wrongpassword"))
    \/ Quiet(Tick(LoginWindowSeconds))
    \/ Quiet(Connect)

SpecScope == Init /\ [][NextScope]_vars

(***************************************************************************)
(* Claims checked under Spec.                                              *)
(***************************************************************************)
\* what the handler finds before it reaches the fingerprint check
Parses(t) == verify_token(t, "refresh", issued, now) # NoToken
ActiveUser(id) == IF get_by_id(users, id) # 0 THEN users[id].is_active ELSE FALSE
StoredFingerprint(t) == RedisExists(store, RefreshKey(t.sub, generate_token_fingerprint(t)))
\* this step is the call Refresh(t)
RefreshOf(t) == resp'.op = "refresh" /\ resp'.token = t /\ Refresh(t)

\* C1: with the store reachable, the user active and nothing expired, a refresh
\* token that a successful Refresh already consumed is rejected as revoked when
\* it is presented again, and the token that Refresh returned is accepted by
\* the call that follows.
C1_RotationRevokesOld ==
    [][\A t \in RefreshTokens :
          (RefreshOf(t) /\ client = "up" /\ Parses(t) /\ ActiveUser(t.sub)) =>
             /\ t.jti \in rotated => resp'.detail = "Refresh token has been revoked"
             /\ (resp.op = "refresh" /\ resp.status = 200 /\ resp.client = "up"
                 /\ t = resp.refresh_token) => resp'.status = 200]_vars

\* C4 as stated: Refresh returns a new pair only if the fingerprint record of
\* the presented token exists in the fast store, in every reachable state.
C4_AcceptedOnlyIfStored ==
    [][\A t \in Presentable :
          (RefreshOf(t) /\ resp'.status = 200) => StoredFingerprint(t)]_vars

\* C4 amended: while the store is reachable, Refresh returns a new pair only
\* if the fingerprint record of the presented token exists; a token whose
\* fingerprint was deleted, expired or never stored is not accepted.
C4_AcceptedOnlyIfStoredWhenReachable ==
    [][\A t \in Presentable :
          (RefreshOf(t) /\ client = "up" /\ resp'.status = 200) => StoredFingerprint(t)]_vars

\* a Refresh that succeeded against a reachable store, the record still there
C4_Witness ==
    /\ resp.op = "refresh" /\ resp.status = 200 /\ resp.client = "up"
    /\ RedisExists(store, RefreshKey(resp.token.sub, generate_token_fingerprint(resp.token)))
    /\ \E t \in RefreshTokens : Parses(t) /\ ~StoredFingerprint(t)

\* C5: while the store is unreachable (no handle, or calls raise) no handler
\* writes to it, and Refresh with a correctly signed, unexpired refresh token
\* of an existing active user succeeds whether or not its fingerprint exists.
C5_FailOpen ==
    [][/\ (client # "up" /\ now' = now) => store' = store
       /\ \A t \in Presentable :
             (RefreshOf(t) /\ client # "up" /\ Parses(t) /\ ActiveUser(t.sub)) =>
                resp'.status = 200]_vars

\* a Refresh accepted during an outage for a token whose fingerprint is not stored
C5_Witness ==
    /\ resp.op = "refresh" /\ resp.status = 200 /\ resp.client # "up"
    /\ ~RedisExists(store, RefreshKey(resp.token.sub, generate_token_fingerprint(resp.token)))

(***************************************************************************)
(* Claims checked under SpecRateLimit, SpecLogin, SpecAdapter,             *)
(* SpecBlacklist and SpecRegister.                                         *)
(***************************************************************************)
\* C3: with a reachable store, sequential calls check_rate_limit(k, 5, W) on a
\* fresh key return true for the first 5 calls of a window and false for
\* every further call until W seconds have passed since the first; the first
\* call after that opens a new window and returns true.
C3_FixedWindowBudget ==
    (resp.op = "check_rate_limit" /\ win[resp.key].clean) =>
        resp.allowed = (win[resp.key].n <= DefaultMaxAttempts)

\* a call allowed again after the window of a denied key has elapsed
C3_Witness ==
    /\ resp.op = "check_rate_limit" /\ resp.allowed
    /\ win[resp.key].clean /\ win[resp.key].n = 1
    /\ win[resp.key].exhausted

LoginKey == generate_rate_limit_key(resp.email, "login")

\* C7: with a reachable store, a Login attempt for an email is rate limited
\* (429) exactly when it is the 11th or a later attempt of the 600-second
\* window that the first attempt opened, whatever its credentials and
\* whatever the outcome of the earlier attempts.
C7_EleventhLoginLimited ==
    (resp.op = "login" /\ win[LoginKey].clean) =>
        (resp.status = 429) = (win[LoginKey].n > LoginMaxAttempts)

\* a login with the right password denied after a window that held a successful login
C7_Witness ==
    /\ resp.op = "login" /\ resp.status = 429 /\ win[LoginKey].clean
    /\ resp.password = RegPassword /\ ActiveUser(get_by_email(users, resp.email))
    /\ \E i \in 3..Len(issued) :
          issued[i].exp >= win[LoginKey].start + AccessExpiresSeconds

\* C8: with a reachable store, verify_refresh_token_fingerprint(u, f) called
\* after store_refresh_token_fingerprint(u, f, ttl) and then
\* revoke_refresh_token_fingerprint(u, f) returns false.
C8_RevokedNotVerified == hist.stage = 3 => resp.result = FALSE

\* the three calls were made on one key while another key stays stored
C8_Witness ==
    /\ hist.stage = 3 /\ resp.op = "verify_fp" /\ resp.uid = hist.uid
    /\ \E k \in DOMAIN store : k[1] = "refresh_token" /\ k[3] = hist.fp

\* C9: Refresh with a refresh token that has a blacklist entry in the fast
\* store never returns a new token pair.
C9_BlacklistedNeverRefreshed ==
    [][\A t \in RefreshTokens :
          (RefreshOf(t) /\ is_token_blacklisted(client, store, t)) =>
              resp'.status # 200]_vars

\* this step is a call of Register
RegisterStep == resp'.op = "register" /\ Register(resp'.email, resp'.password)
FingerprintKeys(st) == {k \in DOMAIN st : k[1] = "refresh_token"}
NothingIssued ==
    /\ users' = users
    /\ issued' = issued
    /\ FingerprintKeys(store') = FingerprintKeys(store)
    /\ resp'.access_token = NoToken /\ resp'.refresh_token = NoToken
RegisterLimited(email) ==
    ~check_rate_limit(client, store, generate_rate_limit_key(email, "register"),
                      RegisterMaxAttempts, RegisterWindowSeconds, now).allowed

\* C10 as stated: Register with an email that exists in the user store returns
\* 400, creates no user, issues no token and writes no fingerprint.
C10_DuplicateRejected ==
    [][(RegisterStep /\ EmailTaken(users, resp'.email)) =>
          (resp'.status = 400 /\ NothingIssued)]_vars

\* C10 amended: such a Register returns 400, or 429 when the rate limiter
\* denies the attempt first; in both cases it creates no user, issues no
\* token and writes no fingerprint.
C10_DuplicateRejectedUnlessLimited ==
    [][(RegisterStep /\ EmailTaken(users, resp'.email)) =>
          /\ resp'.status = (IF RegisterLimited(resp'.email) THEN 429 ELSE 400)
          /\ NothingIssued]_vars

\* a registration refused as a duplicate, the first registration's fingerprint in the store
C10_Witness ==
    /\ resp.op = "register" /\ resp.status = 400 /\ EmailTaken(users, resp.email)
    /\ FingerprintKeys(store) # {}

(***************************************************************************)
(* Claims checked under SpecConc and SpecRLSteps.                          *)
(***************************************************************************)
\* both requests found the email new when they arrived, and both are answered
Raced(p, q) ==
    /\ p # q
    /\ procs[p].pc = "done" /\ procs[p].fresh /\ procs[p].status # 429
    /\ procs[q].pc = "done" /\ procs[q].fresh /\ procs[q].status # 429
    /\ procs[p].email = procs[q].email

\* C2: of two concurrent Register calls with the same new email, interleaved
\* at user-store operations, exactly one succeeds (201) and the other is
\* answered 400, never 500.
C2_OneWinnerOtherDuplicate ==
    \A p, q \in Procs :
        Raced(p, q) => {procs[p].status, procs[q].status} = {201, 400}

\* C6: a call of check_rate_limit that found no client handle, or whose GET,
\* SETEX or INCR raised, returns true, for every key and every max_attempts.
C6_FailOpenOnFault ==
    \A p \in Procs :
        (procs[p].pc = "done" /\ procs[p].fault # "") => procs[p].result = TRUE

\* the INCR of a call raised on a counter that had already reached the limit
C6_Witness ==
    \E p \in Procs :
        /\ procs[p].pc = "done" /\ procs[p].fault = "incr"
        /\ RedisGet(store, procs[p].key) >= procs[p].max_attempts

(***************************************************************************)
(* Claims checked under SpecLogin and SpecAccount.                         *)
(***************************************************************************)
\* this step is a call of Login
LoginStep == resp'.op = "login" /\ Login(resp'.email, resp'.password)
LoginLimited(email) ==
    ~check_rate_limit(client, store, generate_rate_limit_key(email, "login"),
                      LoginMaxAttempts, LoginWindowSeconds, now).allowed
Outcome(r) == <<r.status, r.detail>>
KnowsPassword(email, password) ==
    IF get_by_email(users, email) = 0 THEN FALSE
    ELSE verify_password(password, users[get_by_email(users, email)].hashed_password)

\* C11: a Login for an email that is not in the user store and a Login for an
\* existing email with a wrong password are answered alike: 401 with detail
\* 'Invalid email or password' when the rate limiter admits the attempt, and
\* 429 when it denies it, so the answer does not tell whether the email exists.
C11_UnknownEmailLikeWrongPassword ==
    [][(LoginStep /\ ~KnowsPassword(resp'.email, resp'.password)) =>
          Outcome(resp') =
             IF LoginLimited(resp'.email)
             THEN <<429, "Too many login attempts. Please try again later.">>
             ELSE <<401, "Invalid email or password">>]_vars

\* a login for an email nobody registered was answered 401
C11_Witness ==
    /\ resp.op = "login" /\ resp.status = 401
    /\ get_by_email(users, resp.email) = 0
    /\ resp.client = "up"

\* C12: Login checks the password before the active flag: an admitted attempt
\* on an inactive account is answered 401 with a wrong password and 403 with
\* the right one, and 403 is never the answer to a wrong password.
C12_PasswordBeforeActiveFlag ==
    [][LoginStep =>
          /\ resp'.status = 403 => KnowsPassword(resp'.email, resp'.password)
          /\ (/\ get_by_email(users, resp'.email) # 0
              /\ ~ActiveUser(get_by_email(users, resp'.email))
              /\ ~LoginLimited(resp'.email)) =>
                 resp'.status = IF KnowsPassword(resp'.email, resp'.password)
                                THEN 403 ELSE 401]_vars

\* a wrong password on an inactive account was answered 401
C12_Witness ==
    /\ resp.op = "login" /\ resp.status = 401
    /\ get_by_email(users, resp.email) # 0
    /\ ~ActiveUser(get_by_email(users, resp.email))
    /\ ~KnowsPassword(resp.email, resp.password)

(***************************************************************************)
(* Further claims checked under Spec.                                      *)
(***************************************************************************)
\* the fingerprint check of refresh lets the token pass
FingerprintAccepted(t) == client # "up" \/ StoredFingerprint(t)

\* C13: Refresh with the refresh token of a user who was deactivated after the
\* token was issued never returns tokens and leaves the token list and the
\* store as they are; when the token is unexpired and passes the fingerprint
\* check, the answer is 403 'User account is inactive'.
C13_DeactivatedRefused ==
    [][\A t \in RefreshTokens :
          (RefreshOf(t) /\ get_by_id(users, t.sub) # 0 /\ ~ActiveUser(t.sub)) =>
             /\ resp'.status # 200
             /\ resp'.access_token = NoToken /\ resp'.refresh_token = NoToken
             /\ issued' = issued /\ store' = store
             /\ (Parses(t) /\ FingerprintAccepted(t)) =>
                   Outcome(resp') = <<403, "User account is inactive">>]_vars

\* a stored, unexpired token of a deactivated user was refused with 403
C13_Witness ==
    /\ resp.op = "refresh" /\ resp.status = 403 /\ resp.client = "up"
    /\ Parses(resp.token) /\ StoredFingerprint(resp.token)
    /\ ~ActiveUser(resp.token.sub)

\* this step is a call of Refresh
RefreshStep == resp'.op = "refresh" /\ Refresh(resp'.token)
HandlerStep == RegisterStep \/ LoginStep \/ RefreshStep

Tokens == {issued[i] : i \in 1..Len(issued)}
OtherType(type) == IF type = "access" THEN "refresh" ELSE "access"
\* the pair that this step minted, if it minted one
Minted == issued' # issued
LastIssued(n) == issued'[Len(issued') - n]

\* C14: no issued token verifies as the other kind, whatever the time, and
\* Refresh called with an access token is answered 401 'Invalid or expired
\* refresh token', the answer given before the fingerprint lookup, with the
\* store and the token list left as they are.
C14_KindsNotInterchangeable ==
    [][/\ \A t \in Tokens :
             verify_token(t, OtherType(t.type), issued, now) = NoToken
       /\ \A t \in Tokens :
             (RefreshOf(t) /\ t.type = "access") =>
                /\ Outcome(resp') = <<401, "Invalid or expired refresh token">>
                /\ store' = store /\ issued' = issued]_vars

\* an unexpired access token was presented for refresh and refused
C14_Witness ==
    /\ resp.op = "refresh" /\ resp.token.type = "access"
    /\ resp.token \in Tokens /\ resp.token.exp > now
    /\ resp.status = 401 /\ resp.client = "up"

\* C15: a token is minted with exp = issue time + lifetime (15 minutes for an
\* access token, 7 days for a refresh token); verify_token with the token's
\* own type returns its claims, subject included, at every time before exp
\* and invalid at every time after; Refresh with an expired refresh token is
\* answered 401 'Invalid or expired refresh token'.
C15_ValidUntilExpiry ==
    [][/\ Minted =>
             /\ LastIssued(1) = resp'.access_token
             /\ LastIssued(1).exp = now + AccessExpiresSeconds
             /\ LastIssued(0) = resp'.refresh_token
             /\ LastIssued(0).exp = now + RefreshExpiresSeconds
       /\ \A t \in Tokens :
             /\ now < t.exp =>
                   /\ verify_token(t, t.type, issued, now) # NoToken
                   /\ verify_token(t, t.type, issued, now).sub = t.sub
             /\ now > t.exp => verify_token(t, t.type, issued, now) = NoToken
       /\ \A t \in RefreshTokens :
             (RefreshOf(t) /\ now > t.exp) =>
                /\ Outcome(resp') = <<401, "Invalid or expired refresh token">>
                /\ issued' = issued]_vars

\* a refresh token of the second account was presented after its expiry and
\* refused, while a younger refresh token still verifies
C15_Witness ==
    /\ resp.op = "refresh" /\ resp.token \in RefreshTokens
    /\ resp.token.sub = 2 /\ now > resp.token.exp
    /\ Outcome(resp) = <<401, "Invalid or expired refresh token">>
    /\ \E t \in RefreshTokens : verify_token(t, "refresh", issued, now) = t

\* C16: a refresh token whose fingerprint was not written when it was issued
\* (the store was unreachable then) is refused once the store is reachable:
\* Refresh answers 401 'Refresh token has been revoked' and issues nothing.
C16_UnstoredTokenRefused ==
    [][\A t \in RefreshTokens :
          (RefreshOf(t) /\ client = "up" /\ Parses(t) /\ ~StoredFingerprint(t)) =>
             /\ Outcome(resp') = <<401, "Refresh token has been revoked">>
             /\ resp'.access_token = NoToken /\ resp'.refresh_token = NoToken
             /\ issued' = issued /\ store' = store]_vars

\* an unexpired token of an active user, never stored, was refused with the store reachable
C16_Witness ==
    /\ resp.op = "refresh" /\ resp.client = "up"
    /\ resp.detail = "Refresh token has been revoked"
    /\ Parses(resp.token) /\ ActiveUser(resp.token.sub)
    /\ ~StoredFingerprint(resp.token)

(***************************************************************************)
(* Claims checked under SpecRepeat.                                        *)
(***************************************************************************)
Failed(r) == r.status >= 400
RegisterDenied == <<429, "Too many registration attempts. Please try again later.">>
LoginDenied == <<429, "Too many login attempts. Please try again later.">>

\* C18 as stated: when a call of Register, Login or Refresh fails, the same
\* call repeated at once with the same inputs fails with the same status and
\* detail.
C18_SameFailureOnRepeat ==
    [][/\ \A e \in Emails, p \in Passwords :
             (resp'.op = "register" /\ resp'.email = e /\ resp'.password = p
              /\ Register(e, p) /\ Failed(resp')) =>
                (Outcome(register(e, p).resp) = Outcome(resp))'
       /\ \A e \in Emails, p \in Passwords :
             (resp'.op = "login" /\ resp'.email = e /\ resp'.password = p
              /\ Login(e, p) /\ Failed(resp')) =>
                (Outcome(login(e, p).resp) = Outcome(resp))'
       /\ \A t \in Presentable :
             (RefreshOf(t) /\ Failed(resp')) =>
                (Outcome(refresh(t).resp) = Outcome(resp))']_vars

\* C18 amended: the repeated call fails with the same status and detail,
\* except that a repeated Register or Login is answered 429 when the failed
\* call took the last attempt of the rate-limit window; a repeated Refresh
\* always fails alike.
C18_SameFailureUnlessLimited ==
    [][/\ \A e \in Emails, p \in Passwords :
             (resp'.op = "register" /\ resp'.email = e /\ resp'.password = p
              /\ Register(e, p) /\ Failed(resp')) =>
                (Outcome(register(e, p).resp) =
                    IF RegisterLimited(e) THEN RegisterDenied ELSE Outcome(resp))'
       /\ \A e \in Emails, p \in Passwords :
             (resp'.op = "login" /\ resp'.email = e /\ resp'.password = p
              /\ Login(e, p) /\ Failed(resp')) =>
                (Outcome(login(e, p).resp) =
                    IF LoginLimited(e) THEN LoginDenied ELSE Outcome(resp))'
       /\ \A t \in Presentable :
             (RefreshOf(t) /\ Failed(resp')) =>
                (Outcome(refresh(t).resp) = Outcome(resp))']_vars

\* the tenth login of a window failed with 401, so that its repetition is denied
C18_Witness ==
    /\ resp.op = "login" /\ resp.status = 401 /\ resp.client = "up"
    /\ LoginLimited(resp.email)
    /\ Outcome(login(resp.email, resp.password).resp) = LoginDenied

(***************************************************************************)
(* Further claims checked under SpecTokens.                                *)
(***************************************************************************)
\* C19: the access token and the refresh token that a successful Register,
\* Login or Refresh returns differ from each other and from every token
\* issued before, also from those issued for the same subject at the same
\* instant.
C19_FreshTokens ==
    [][Minted =>
          /\ issued' = issued \o <<resp'.access_token, resp'.refresh_token>>
          /\ resp'.access_token \notin Tokens
          /\ resp'.refresh_token \notin Tokens
          /\ resp'.access_token # resp'.refresh_token]_vars

\* a refresh returned a pair while an earlier pair of the same subject and the
\* same instant exists
C19_Witness ==
    /\ resp.op = "refresh" /\ resp.status = 200
    /\ \E t \in RefreshTokens :
          /\ t # resp.refresh_token
          /\ t.sub = resp.refresh_token.sub /\ t.exp = resp.refresh_token.exp
    /\ \E t \in Tokens :
          /\ t # resp.access_token /\ t.type = "access"
          /\ t.sub = resp.access_token.sub /\ t.exp = resp.access_token.exp

\* C20: the refresh token that a successful Register, Login or Refresh
\* returns is accepted by a Refresh that follows at once: it is answered 200,
\* with the store reachable and with the store unreachable.
C20_IssuedTokenAccepted ==
    [][Minted => (refresh(resp.refresh_token).resp.status = 200)']_vars

\* register, login, then a refresh of the login's token answered 200, the store reachable
C20_Witness ==
    /\ resp.op = "refresh" /\ resp.status = 200 /\ resp.client = "up"
    /\ Len(issued) >= 6
    /\ resp.token = issued[4] /\ issued[4].sub = issued[2].sub
    /\ resp.token.exp = now + RefreshExpiresSeconds

(***************************************************************************)
(* Claims about the counter of the rate limiter, checked under             *)
(* SpecRateLimit and SpecRLSteps.                                          *)
(***************************************************************************)
\* this step is a call of check_rate_limit
RateLimitStep == resp'.op = "check_rate_limit" /\ RateLimitCall(resp'.key)
RateLimitKeys(st) == {k \in DOMAIN st : k[1] = "rate_limit"}

\* C21: a call of check_rate_limit that finds a counter below max_attempts
\* is allowed, adds one to the count and leaves the expiry time of the key as
\* it was, which is window_seconds after the first attempt of the window.
C21_WindowFixedAtFirstAttempt ==
    [][(/\ RateLimitStep /\ client = "up"
        /\ resp'.key \in DOMAIN store
        /\ store[resp'.key].val < DefaultMaxAttempts) =>
           /\ resp'.allowed
           /\ store'[resp'.key].val = store[resp'.key].val + 1
           /\ store'[resp'.key].exp = store[resp'.key].exp
           /\ win[resp'.key].clean =>
                 store'[resp'.key].exp = win'[resp'.key].start + DefaultWindowSeconds]_vars

\* an attempt that arrived late in the window was counted, the expiry still
\* that of the first attempt
C21_Witness ==
    /\ resp.op = "check_rate_limit" /\ resp.allowed /\ resp.client = "up"
    /\ resp.key \in DOMAIN store
    /\ store[resp.key].val >= 2
    /\ now > win[resp.key].start
    /\ store[resp.key].exp = win[resp.key].start + DefaultWindowSeconds

\* C22: every rate-limit counter in the store has a TTL, however calls of
\* check_rate_limit interleave with the expiry of keys.
C22_CountersExpire ==
    \A k \in RateLimitKeys(store) : store[k].exp # NoTTL

\* calls that returned true without a fault, on one key with one limit
AllowedCalls(key, max_attempts) ==
    {p \in Procs : /\ procs[p].pc = "done" /\ procs[p].result /\ procs[p].fault = ""
                   /\ procs[p].key = key /\ procs[p].max_attempts = max_attempts}

\* C23: of the concurrent calls of check_rate_limit on one key that fall in
\* one window, interleaved at single store operations, at most max_attempts
\* return true.
C23_AllowedWithinBudget ==
    nticks = 0 =>
        \A id \in Identifiers, m \in MaxAttemptsArgs :
            Cardinality(AllowedCalls(generate_rate_limit_key(id, "api"), m)) <= m

(***************************************************************************)
(* Claims checked under SpecScope.                                         *)
(***************************************************************************)
\* the step leaves every rate-limit counter but that of key as it was
OtherCountersKept(key) ==
    \A k \in RateLimitKeys(store) \cup RateLimitKeys(store') :
        k # key => /\ k \in DOMAIN store /\ k \in DOMAIN store'
                   /\ store'[k] = store[k]
\* the counter of key before the step decides as a budget of max_attempts
\* per window_seconds does
CountedAs(key, max_attempts, window_seconds) ==
    client = "up" =>
       /\ (resp'.status = 429) = (RedisGet(store, key) >= max_attempts)
       /\ key \notin DOMAIN store =>
             store'[key] = [val |-> 1, exp |-> now + window_seconds]

\* C24: an attempt on (login, e) changes no rate-limit counter but its own and
\* leaves the verdict of the limiter for (register, e') and, for e' other than
\* e, for (login, e') as it was, and likewise for an attempt on (register, e);
\* register is counted against 5 per 3600 s, login against 10 per 600 s.
C24_CountersScoped ==
    [][/\ \A e \in TokenEmails :
             (resp'.op = "login" /\ resp'.email = e /\ Login(e, resp'.password)) =>
                /\ OtherCountersKept(generate_rate_limit_key(e, "login"))
                /\ \A e2 \in TokenEmails :
                      /\ RegisterLimited(e2)' = RegisterLimited(e2)
                      /\ e2 # e => LoginLimited(e2)' = LoginLimited(e2)
                /\ CountedAs(generate_rate_limit_key(e, "login"),
                             LoginMaxAttempts, LoginWindowSeconds)
       /\ \A e \in TokenEmails :
             (resp'.op = "register" /\ resp'.email = e /\ Register(e, resp'.password)) =>
                /\ OtherCountersKept(generate_rate_limit_key(e, "register"))
                /\ \A e2 \in TokenEmails :
                      /\ LoginLimited(e2)' = LoginLimited(e2)
                      /\ e2 # e => RegisterLimited(e2)' = RegisterLimited(e2)
                /\ CountedAs(generate_rate_limit_key(e, "register"),
                             RegisterMaxAttempts, RegisterWindowSeconds)]_vars

\* a login was denied for one email while the register counter of that email
\* and the login counter of the other email are below their budgets
C24_Witness ==
    /\ resp.op = "login" /\ resp.status = 429
    /\ generate_rate_limit_key(resp.email, "register") \in DOMAIN store
    /\ ~RegisterLimited(resp.email)
    /\ \E e2 \in TokenEmails \ {resp.email} :
          /\ generate_rate_limit_key(e2, "login") \in DOMAIN store
          /\ ~LoginLimited(e2)

(***************************************************************************)
(* Claims checked under SpecConc: failures of the user store.              *)
(***************************************************************************)
\* this step is the create of request p, and the user store refuses it
CreateFails(p) ==
    /\ procs[p].pc = "create" /\ procs'[p].pc # "create"
    /\ EmailTaken(users, procs[p].email)
    /\ RegCreate(p)

DbErrorStep ==
    /\ resp'.db # "ok"
    /\ \/ resp'.op = "register" /\ RegisterDbError(resp'.email, resp'.password, resp'.db)
       \/ resp'.op = "login" /\ LoginDbError(resp'.email, resp'.password)
       \/ resp'.op = "refresh" /\ RefreshDbError(resp'.token)

\* the call of this step gets as far as its user-store lookup
LookupReached ==
    \/ resp'.op = "register" /\ ~RegisterLimited(resp'.email)
    \/ resp'.op = "login" /\ ~LoginLimited(resp'.email)
    \/ resp'.op = "refresh" /\ Parses(resp'.token) /\ FingerprintAccepted(resp'.token)

\* C26: a Register, Login or Refresh whose user-store lookup raises returns
\* no token pair, issues no token, writes no fingerprint and creates no user;
\* it is answered 500 whenever the lookup is reached, also when the call got
\* there because the rate-limit check or the fingerprint check failed open.
C26_LookupFailureNeverAllows ==
    [][(DbErrorStep /\ resp'.db = "lookup") =>
          /\ resp'.status \notin {200, 201}
          /\ NothingIssued
          /\ LookupReached => resp'.status = 500
          /\ (client # "up" /\ resp'.op \in {"register", "login"}) => resp'.status = 500]_vars

\* a refresh whose fingerprint is not in the store passed the fingerprint
\* check because there is no Redis client, and was answered 500 when the
\* lookup raised
C26_Witness ==
    /\ resp.op = "refresh" /\ resp.db = "lookup" /\ resp.status = 500
    /\ resp.client = "None" /\ client = "None"
    /\ ~StoredFingerprint(resp.token)
    /\ Len(issued) = 2

\* the error outcome the pre-state and the inputs of this step's call select,
\* "Success" when none
ExpectedOutcome ==
    LET r == resp'
        user == get_by_email(users, r.email)
    IN IF r.op = "register"
       THEN IF RegisterLimited(r.email) THEN "RateLimited"
            ELSE IF r.db = "lookup" THEN "InternalError"
            ELSE IF EmailTaken(users, r.email) THEN "DuplicateEmail"
            ELSE IF r.db = "create" THEN "InternalError"
            ELSE "Success"
       ELSE IF r.op = "login"
       THEN IF LoginLimited(r.email) THEN "RateLimited"
            ELSE IF r.db = "lookup" THEN "InternalError"
            ELSE IF ~KnowsPassword(r.email, r.password) THEN "InvalidCredentials"
            ELSE IF ~users[user].is_active THEN "AccountInactive"
            ELSE "Success"
       ELSE IF ~Parses(r.token) THEN "InvalidToken"
            ELSE IF ~FingerprintAccepted(r.token) THEN "RevokedToken"
            ELSE IF r.db = "lookup" THEN "InternalError"
            ELSE IF get_by_id(users, r.token.sub) = 0 THEN "InvalidToken"
            ELSE IF ~ActiveUser(r.token.sub) THEN "AccountInactive"
            ELSE "Success"

StatusOf(outcome) ==
    CASE outcome = "RateLimited" -> {429}
      [] outcome = "DuplicateEmail" -> {400}
      [] outcome = "InvalidCredentials" -> {401}
      [] outcome = "AccountInactive" -> {403}
      [] outcome = "InvalidToken" -> {401}
      [] outcome = "RevokedToken" -> {401}
      [] outcome = "InternalError" -> {500}
      [] outcome = "Success" -> {200, 201}

\* C27: whichever path of Register, Login or Refresh produces an error
\* outcome, the response carries that outcome's status: RateLimited 429,
\* DuplicateEmail 400, InvalidCredentials 401, AccountInactive 403,
\* InvalidToken 401, RevokedToken 401, InternalError 500; and a call with no
\* error outcome is answered 200 or 201.
C27_OutcomeStatus ==
    [][(HandlerStep \/ DbErrorStep) => resp'.status \in StatusOf(ExpectedOutcome)]_vars

\* a login of a deactivated account while the database raises, denied by the
\* rate limiter before either matters
C27_Witness ==
    /\ resp.op = "login" /\ resp.status = 429 /\ resp.db = "lookup"
    /\ KnowsPassword(resp.email, resp.password)
    /\ ~users[get_by_email(users, resp.email)].is_active

(***************************************************************************)
(* Further claims checked under SpecTokens.                                *)
(***************************************************************************)
\* C28: a Register of an email that is not in the user store, admitted by the
\* rate limiter, returns 201 with an access token and a refresh token,
\* expires_in 900 and refresh_expires_in 604800, and creates the user; with
\* the store reachable it adds exactly one fingerprint record, that of the
\* returned refresh token under the new user's id, expiring 604800 seconds
\* from now, and leaves every other record as it was.
C28_RegisterSuccess ==
    [][(RegisterStep /\ ~EmailTaken(users, resp'.email)
                     /\ ~RegisterLimited(resp'.email)) =>
          LET id == Len(users) + 1
              key == RefreshKey(id, generate_token_fingerprint(resp'.refresh_token))
          IN /\ resp'.status = 201
             /\ resp'.access_token # NoToken /\ resp'.access_token.type = "access"
             /\ resp'.refresh_token # NoToken /\ resp'.refresh_token.type = "refresh"
             /\ resp'.expires_in = 900 /\ resp'.refresh_expires_in = 604800
             /\ get_by_email(users', resp'.email) = id
             /\ resp'.access_token.sub = id /\ resp'.refresh_token.sub = id
             /\ client = "up" =>
                   /\ FingerprintKeys(store') \ FingerprintKeys(store) = {key}
                   /\ store'[key].exp = now + 604800
                   /\ \A k \in FingerprintKeys(store) : store'[k] = store[k]
             /\ client # "up" => FingerprintKeys(store') = FingerprintKeys(store)]_vars

\* the second account registered with the store reachable: its fingerprint
\* is in the store next to the first account's
C28_Witness ==
    /\ resp.op = "register" /\ resp.status = 201 /\ resp.client = "up"
    /\ resp.refresh_token.sub = 2
    /\ RefreshKey(2, generate_token_fingerprint(resp.refresh_token)) \in DOMAIN store
    /\ \E k \in FingerprintKeys(store) : k[2] = 1

\* the user for whom the call of this step asks for tokens
Subject ==
    IF resp'.op = "refresh" THEN resp'.token.sub ELSE get_by_email(users', resp'.email)

\* C30: the pair a Register, Login or Refresh mints is an access token with
\* type 'access', the user's id as subject and the user's email as the user
\* store has it, and a refresh token with type 'refresh', the same subject
\* and no email; and every token issued so far is of one of these two forms.
C30_TokenClaims ==
    [][(HandlerStep /\ Minted) =>
          /\ LastIssued(1) = resp'.access_token /\ LastIssued(0) = resp'.refresh_token
          /\ Subject \in 1..Len(users')
          /\ resp'.access_token.type = "access"
          /\ resp'.access_token.sub = Subject
          /\ resp'.access_token.email = users'[Subject].email
          /\ resp'.access_token.email # NoEmail
          /\ resp'.refresh_token.type = "refresh"
          /\ resp'.refresh_token.sub = Subject
          /\ resp'.refresh_token.email = NoEmail
          /\ \A i \in 1..Len(issued') :
                IF issued'[i].type = "access"
                THEN issued'[i].email = users'[issued'[i].sub].email
                ELSE issued'[i].type = "refresh" /\ issued'[i].email = NoEmail]_vars

\* a refresh by the second account minted a pair: the access token carries
\* that account's email, the refresh token none
C30_Witness ==
    /\ resp.op = "refresh" /\ resp.status = 200 /\ resp.token.sub = 2
    /\ resp.access_token.sub = 2 /\ resp.access_token.email = users[2].email
    /\ resp.refresh_token.sub = 2 /\ resp.refresh_token.email = NoEmail
    /\ users[1].email # users[2].email

(***************************************************************************)
(* Claims checked under SpecPar.                                           *)
(***************************************************************************)
\* the fast-store keys of the user of request p: its two rate-limit
\* counters and the fingerprints stored under its id
KeysOf(st, us, p) ==
    {k \in DOMAIN st :
        \/ k = generate_rate_limit_key(EmailOf(p), "register")
        \/ k = generate_rate_limit_key(EmailOf(p), "login")
        \/ /\ k[1] = "refresh_token"
           /\ get_by_email(us, EmailOf(p)) # 0
           /\ k[2] = get_by_email(us, EmailOf(p))}

\* C29: with one request per user in flight and the steps of the two
\* interleaved in any order, a step of one request leaves the other request,
\* the other user's row and the other user's fast-store keys as they were,
\* and each request ends with the status its handler returns when run alone
\* from the state the request found, so that the outcome is that of the
\* serial execution in either order.
C29_DistinctUsersSerial ==
    [][\A p \in Procs : procs'[p] # procs[p] =>
          /\ \A q \in Procs \ {p} :
                /\ procs'[q] = procs[q]
                /\ get_by_email(users', EmailOf(q)) = get_by_email(users, EmailOf(q))
                /\ get_by_email(users, EmailOf(q)) # 0 =>
                      users'[get_by_email(users, EmailOf(q))]
                          = users[get_by_email(users, EmailOf(q))]
                /\ KeysOf(store', users', q) = KeysOf(store, users, q)
                /\ \A k \in KeysOf(store, users, q) : store'[k] = store[k]
          /\ procs'[p].pc = "done" => procs'[p].status = procs'[p].serial]_vars

\* the first user's login was denied by the rate limiter while the second
\* user's login, past its lookup, is about to write its fingerprint
C29_Witness ==
    /\ procs[1].pc = "done" /\ procs[1].status = 429 /\ procs[1].serial = 429
    /\ procs[2].pc = "tokens" /\ procs[2].serial = 200
    /\ KeysOf(store, users, 1) # {} /\ KeysOf(store, users, 2) # {}

(***************************************************************************)
(* Claims checked under SpecPasswords.                                     *)
(***************************************************************************)
\* C31: verify_password(Q, hash_password(P)) is true exactly when Q = P, and
\* the hash stored by Register(email, P) differs from P and verifies against
\* P and against no other password.
C31_VerifiesExactlyOwnPassword ==
    /\ resp.op = "verify_password" => (resp.result = (resp.detail = resp.password))
    /\ (resp.op = "register" /\ resp.status = 201) =>
          LET stored == users[get_by_email(users, resp.email)].hashed_password
          IN /\ stored # resp.password
             /\ \A q \in PasswordInputs : verify_password(q, stored) = (q = resp.password)

(***************************************************************************)
(* Further claims checked under SpecFaults.                                *)
(***************************************************************************)
\* the values a step must not disclose: the password of the request, the
\* token presented and every token issued up to and by the step
Secrets ==
    {<<"str", resp'.password>>, <<"token", resp'.token>>}
        \cup {<<"token", issued'[i]>> : i \in 1..Len(issued')}

C33_FingerprintBeforeLookup ==
    [][(RefreshStep /\ client = "up") =>
          /\ (Parses(resp'.token) /\ ~StoredFingerprint(resp'.token)) =>
                Outcome(resp') = <<401, "Refresh token has been revoked">>
          /\ resp'.status = 403 => StoredFingerprint(resp'.token)
          /\ resp'.detail = "User not found" => StoredFingerprint(resp'.token)]_vars

\* the token of a deactivated account, its fingerprint revoked, was refused
\* as revoked, not as inactive
C33_Witness ==
    /\ resp.op = "refresh" /\ resp.client = "up"
    /\ Outcome(resp) = <<401, "Refresh token has been revoked">>
    /\ Parses(resp.token) /\ ~StoredFingerprint(resp.token)
    /\ get_by_id(users, resp.token.sub) # 0 /\ ~ActiveUser(resp.token.sub)

(***************************************************************************)
(* Further claims checked under SpecRegister.                              *)
(***************************************************************************)
\* C34: with the store reachable, a Register is denied (429) exactly when the
\* counter of (register, email) has reached 5, whether or not the email is
\* registered; every Register that is not denied adds one to that counter
\* whatever its outcome (201 or 400), so the 6th attempt of a 3600-second
\* window is answered 429, not 400.
C34_LimiterBeforeLookup ==
    [][(RegisterStep /\ client = "up") =>
          LET key == generate_rate_limit_key(resp'.email, "register")
              count == IF key \in DOMAIN store THEN store[key].val ELSE 0
              after == IF key \in DOMAIN store' THEN store'[key]
                       ELSE [val |-> 0, exp |-> NoTTL]
          IN /\ (resp'.status = 429) = (count >= 5)
             /\ resp'.status = 429 => store' = store
             /\ resp'.status # 429 =>
                   /\ resp'.status \in {201, 400}
                   /\ after.val = count + 1
                   /\ count = 0 => after.exp = now + 3600
             /\ win'[key].clean => (resp'.status = 429) = (win'[key].n > 5)]_vars

\* the 6th attempt of a window for a registered email, answered 429 after
\* one 201 and four 400
C34_Witness ==
    LET key == generate_rate_limit_key(resp.email, "register")
    IN /\ resp.op = "register" /\ resp.status = 429 /\ resp.client = "up"
       /\ EmailTaken(users, resp.email)
       /\ win[key].clean /\ win[key].n = 6 /\ win[key].start = 0
       /\ store[key].val = 5

(***************************************************************************)
(* Claims checked under SpecTokens: the lifetime of a fingerprint.         *)
(***************************************************************************)
\* C35: the fingerprint record written when a refresh token is issued expires
\* at the token's own expiry, and nothing but that expiry removes or changes
\* it; so with the store reachable a Refresh never accepts a token whose
\* record has expired, a token whose record is in the store is unexpired,
\* and 'Refresh token has been revoked' is answered only for a token whose
\* record is not in the store.
C35_FingerprintLivesWithToken ==
    [][/\ (HandlerStep /\ Minted /\ client = "up") =>
             LET key == RefreshKey(resp'.refresh_token.sub,
                                   generate_token_fingerprint(resp'.refresh_token))
             IN IF key \in DOMAIN store'
                THEN store'[key].exp = resp'.refresh_token.exp
                ELSE FALSE
       /\ \A k \in FingerprintKeys(store) :
             IF k \in DOMAIN store' THEN store'[k] = store[k]
             ELSE now' >= store[k].exp
       /\ \A t \in RefreshTokens :
             StoredFingerprint(t) =>
                /\ store[RefreshKey(t.sub, generate_token_fingerprint(t))].exp = t.exp
                /\ now < t.exp
       /\ (RefreshStep /\ client = "up") =>
             /\ resp'.status = 200 =>
                   StoredFingerprint(resp'.token) /\ now < resp'.token.exp
             /\ StoredFingerprint(resp'.token) =>
                   resp'.detail # "Refresh token has been revoked"]_vars

\* a token presented one second before its expiry, its record still in the
\* store, was accepted
C35_Witness ==
    /\ resp.op = "refresh" /\ resp.status = 200 /\ resp.client = "up"
    /\ now = resp.token.exp - 1
    /\ StoredFingerprint(resp.token)

(***************************************************************************)
(* Further claims checked under SpecRateLimit and SpecAdapter.             *)
(***************************************************************************)
\* C36: a call of check_rate_limit that is denied leaves the store as it
\* was, counter and expiry included; with calls made one after another every
\* counter in the store holds a value from 1 to max_attempts.
C36_DeniedCallChangesNothing ==
    [][/\ (RateLimitStep /\ ~resp'.allowed) =>
             /\ store' = store
             /\ client = "up"
             /\ IF resp'.key \in DOMAIN store
                THEN store[resp'.key].val >= DefaultMaxAttempts ELSE FALSE
       /\ \A k \in RateLimitKeys(store') :
             store'[k].val \in 1..DefaultMaxAttempts]_vars

\* a denied call on a counter that stands at max_attempts, inside its window
C36_Witness ==
    /\ resp.op = "check_rate_limit" /\ ~resp.allowed
    /\ IF resp.key \in DOMAIN store
       THEN store[resp.key].val = DefaultMaxAttempts /\ store[resp.key].exp > now
       ELSE FALSE
    /\ win[resp.key].n > DefaultMaxAttempts

\* C37: with the store reachable, verify_refresh_token_fingerprint(u, f)
\* returns true exactly when the record of (u, f) is in the store; a record
\* gets there only by store_refresh_token_fingerprint(u, f, ttl) with the
\* same u and f, is gone after revoke_refresh_token_fingerprint(u, f) and
\* after its expiry, and no call on one user's record changes another's; so
\* a record stored for another user id never validates (u, f).
C37_FingerprintScopedPerUser ==
    [][/\ (resp'.op = "verify_fp" /\ VerifyCall(resp'.uid, resp'.fp) /\ client = "up") =>
             resp'.result = (RefreshKey(resp'.uid, resp'.fp) \in DOMAIN store)
       /\ \A k \in FingerprintKeys(store') \ FingerprintKeys(store) :
             /\ resp'.op = "store_fp" /\ client = "up"
             /\ k = RefreshKey(resp'.uid, resp'.fp)
       /\ \A k \in FingerprintKeys(store) \ FingerprintKeys(store') :
             \/ now' >= store[k].exp
             \/ resp'.op = "revoke_fp" /\ client = "up" /\ k = RefreshKey(resp'.uid, resp'.fp)
       /\ (resp'.op = "revoke_fp" /\ RevokeCall(resp'.uid, resp'.fp) /\ client = "up") =>
             RefreshKey(resp'.uid, resp'.fp) \notin DOMAIN store'
       /\ \A k \in FingerprintKeys(store') : store'[k].exp > now']_vars

\* the fingerprint is stored for one user id, and verify for the other user
\* id returned false
C37_Witness ==
    /\ resp.op = "verify_fp" /\ resp.client = "up" /\ resp.result = FALSE
    /\ RefreshKey(resp.uid, resp.fp) \notin DOMAIN store
    /\ \E u \in UserIds : u # resp.uid /\ RefreshKey(u, resp.fp) \in DOMAIN store

(***************************************************************************)
(* SpecHandle: accounts register and log in, fingerprints are revoked, and *)
(* the process restarts without reaching Redis, so that tokens are         *)
(* refreshed without a handle while the server holds records.              *)
(***************************************************************************)
NextHandle ==
    \/ \E e \in Emails : get_by_email(users, e) = 0 /\ Quiet(Register(e, RegPassword))
    \/ \E e \in Emails : get_by_email(users, e) # 0 /\ Quiet(Login(e, RegPassword))
    \/ \E t \in Presentable : Quiet(Refresh(t))
    \/ \E id \in 1..Len(users) : Quiet(Deactivate(id))
    \/ \E t \in RefreshTokens : Quiet(RevokeCall(t.sub, generate_token_fingerprint(t)))
    \/ Quiet(Tick(AccessExpiresSeconds))
    \/ Quiet(Connect)
    \/ Quiet(Restart)

SpecHandle == Init /\ [][NextHandle]_vars

\* C38: while the handle is None, Refresh gives the result that the token,
\* the clock and the user state determine, whatever fingerprint records the
\* store holds: the fingerprint check gives the same answer for the store
\* without any subset of its records, no token is rejected as revoked, the
\* status is 200 exactly for a valid token of an active user, and the store
\* is left as it was.
C38_RefreshIgnoresStoreWithoutHandle ==
    [][(RefreshStep /\ client = "None") =>
          LET t == resp'.token
          IN /\ store' = store
             /\ resp'.detail # "Refresh token has been revoked"
             /\ (resp'.status = 200) = (Parses(t) /\ ActiveUser(t.sub))
             /\ ~Parses(t) =>
                   resp'.status = 401 /\ resp'.detail = "Invalid or expired refresh token"
             /\ (Parses(t) /\ get_by_id(users, t.sub) # 0 /\ ~ActiveUser(t.sub)) =>
                   resp'.status = 403
             /\ Parses(t) =>
                   \A K \in SUBSET FingerprintKeys(store) :
                      verify_refresh_token_fingerprint(
                          client, [k \in DOMAIN store \ K |-> store[k]], t.sub,
                          generate_token_fingerprint(t))
                      = verify_refresh_token_fingerprint(
                          client, store, t.sub, generate_token_fingerprint(t))]_vars

\* without a handle, a token whose record was revoked is refreshed while the
\* store holds the records of other tokens
C38_Witness ==
    /\ resp.op = "refresh" /\ resp.client = "None" /\ client = "None"
    /\ resp.status = 200
    /\ ~StoredFingerprint(resp.token)
    /\ FingerprintKeys(store) # {}

====
